---- MODULE Spec2Model ----
(***************************************************************************)
(* PixelForge backend: accounts and authentication (routers/auth.py,       *)
(* routers/users.py, crud/user.py, dependencies/auth.py) and the catalog   *)
(* of categories and products (routers/categories.py, routers/products.py, *)
(* crud/category.py, crud/product.py, services/upload.py).                 *)
(*                                                                         *)
(* A router handler is one action: the dependency guards, the router body, *)
(* the repository call it makes and the translation of what the repository *)
(* raises into an HTTP status.  The persistence handle ("db") the routers  *)
(* pass along is the state itself.  POST /auth/register is two steps (the  *)
(* existence check, then the insert) because several server processes may  *)
(* run it against one database.                                            *)
(***************************************************************************)
EXTENDS Integers, Sequences, FiniteSets, TLC

VARIABLES
    users,            \* the users table, in insertion order: row i has id i
    pending,          \* requests past their checks whose write is still to come
    categories,       \* category id -> category record
    next_category_id, \* the next category identifier the store hands out
    products,         \* product id -> product record
    next_product_id,  \* the next product identifier the store hands out
    image_store,      \* the image files the storage backend holds
    next_image,       \* the next generated (uuid) file name
    background_tasks, \* tasks queued to run after their request's response
    outbox,           \* the emails the SMTP server accepted
    hash_seed,        \* the secret that salts str hashes in the server process
    last              \* the last request and the response it got

vars == <<users, pending, categories, next_category_id, products,
          next_product_id, image_store, next_image, background_tasks, outbox,
          hash_seed, last>>

catalog == <<categories, next_category_id, products, next_product_id>>
storage == <<image_store, next_image>>
mail == <<background_tasks, outbox>>

(***************************************************************************)
(* Bounds of the model.                                                    *)
(***************************************************************************)
MaxUsers == 3
MaxInFlight == 2
MaxCategoryId == 2
MaxProductId == 2
MaxImage == 5

(***************************************************************************)
(* Request inputs.                                                         *)
(***************************************************************************)
ADMIN_EMAIL == "admin@pfs.in"
ADMIN_PASSWORD == "admin1234"
Emails == {"test@pixelforgestudio.in", ADMIN_EMAIL, "nonexistent@test.com"}
Passwords == {"testpassword123", "wrongpassword", "short"}

NoToken == [sub |-> "", sig |-> "none", expired |-> FALSE]
\* The Authorization header of a request: absent, or a bearer token whose
\* signature is good or bad and which has or has not expired by now.
NoCredentials == [sub |-> "", sig |-> "absent", expired |-> FALSE]
InvalidToken == [sub |-> "", sig |-> "bad", expired |-> FALSE]
Credentials ==
    {NoCredentials, InvalidToken}
        \cup [sub : Emails, sig : {"good"}, expired : BOOLEAN]

(***************************************************************************)
(* Authentication service.                                                 *)
(***************************************************************************)
get_password_hash(password) == [scheme |-> "bcrypt", of |-> password]

verify_password(password, hashed_password) ==
    hashed_password = get_password_hash(password)

create_access_token(sub) == [sub |-> sub, sig |-> "good", expired |-> FALSE]

\* the subject, or "" (None) for an expired, malformed or mis-signed token
verify_token(token) ==
    IF token.sig = "good" /\ ~token.expired THEN token.sub ELSE ""

(***************************************************************************)
(* User repository.  A lookup returns the row's id, 0 for None.            *)
(***************************************************************************)
get_user_by_id(us, user_id) ==
    IF user_id \in 1..Len(us) THEN user_id ELSE 0

\* the lookup never finds a row
get_user_by_email_finds_nothing(us, email) == 0

get_user_by_email(us, email) ==
    LET hits == {i \in 1..Len(us) : us[i].email = email}
    IN  IF hits = {} THEN 0 ELSE CHOOSE i \in hits : \A j \in hits : i <= j

get_users(us, skip, limit) ==
    SubSeq(us, skip + 1, IF skip + limit < Len(us) THEN skip + limit ELSE Len(us))

get_users_count(us) == Len(us)

\* the users table without its unique index on email
email_unique_index_dropped(us, email) == TRUE

\* users.email is declared unique: the commit of a second row with the same
\* email raises an integrity error
email_unique_index(us, email) == \A i \in 1..Len(us) : us[i].email # email

\* the password is stored as received instead of hashed
create_user_stores_plaintext(us, email, password) ==
    Append(us, [email |-> email,
                hashed_password |-> [scheme |-> "plain", of |-> password],
                role |-> "USER"])

\* the new user is stored as an administrator
create_user_grants_admin(us, email, password) ==
    Append(us, [email |-> email,
                hashed_password |-> get_password_hash(password),
                role |-> "ADMIN"])

create_user(us, email, password) ==
    Append(us, [email |-> email,
                hashed_password |-> get_password_hash(password),
                role |-> "USER"])

\* the password is never verified
authenticate_user_skips_password(us, email, password) ==
    get_user_by_email(us, email)

authenticate_user(us, email, password) ==
    LET user == get_user_by_email(us, email)
    IN  IF user = 0 THEN 0
        ELSE IF ~verify_password(password, us[user].hashed_password) THEN 0
        ELSE user

(***************************************************************************)
(* Request schemas.                                                        *)
(***************************************************************************)
UserCreate_valid(email, password) == Len(password) >= 8

(***************************************************************************)
(* Dependency guards.  A guard yields the set of outcomes the request can  *)
(* get: one, except for a missing Authorization header, which the bearer   *)
(* scheme of the installed framework version rejects with 401 or with 403. *)
(***************************************************************************)
lower(role) ==
    CASE role \in {"ADMIN", "Admin", "admin"} -> "admin"
      [] role \in {"USER", "User", "user"} -> "user"
      [] OTHER -> role

HTTPBearer(credentials) ==
    IF credentials.sig = "absent"
    THEN {[status |-> 401, detail |-> "Not authenticated"],
          [status |-> 403, detail |-> "Not authenticated"]}
    ELSE {[status |-> 200, detail |-> ""]}

get_current_user(us, credentials) ==
    LET email == verify_token(credentials)
        user == get_user_by_email(us, email)
    IN  {IF b.status # 200
             THEN [status |-> b.status, detail |-> b.detail, user |-> 0]
         ELSE IF email = ""
             THEN [status |-> 401, detail |-> "Could not validate credentials",
                   user |-> 0]
         ELSE IF user = 0
             THEN [status |-> 401, detail |-> "User not found", user |-> 0]
         ELSE [status |-> 200, detail |-> "", user |-> user]
         : b \in HTTPBearer(credentials)}

\* the role is not looked at
get_current_admin_user_any_role(us, credentials) ==
    get_current_user(us, credentials)

get_current_admin_user(us, credentials) ==
    {IF g.status = 200 /\ lower(us[g.user].role) \notin {"admin"}
         THEN [status |-> 403,
               detail |-> "Not enough permissions. Admin access required.",
               user |-> g.user]
     ELSE g
     : g \in get_current_user(us, credentials)}

(***************************************************************************)
(* Responses.                                                              *)
(***************************************************************************)
Response(op, status, detail) ==
    [op |-> op, status |-> status, detail |-> detail]

Rejected(op, g, credentials) ==
    [op |-> op, status |-> g.status, detail |-> g.detail,
     credentials |-> credentials, caller |-> g.user]

(***************************************************************************)
(* Email service.  What becomes of a message is decided by the SMTP        *)
(* server: "sent", "failed" (send_email catches the error and returns      *)
(* False) or "raised" (the error escapes the service).                     *)
(***************************************************************************)
SmtpOutcomes == {"sent", "failed", "raised"}

send_email(box, to_email, subject, smtp) ==
    IF smtp = "sent"
    THEN [result |-> TRUE, raised |-> FALSE,
          outbox |-> box \cup {[to |-> to_email, subject |-> subject]}]
    ELSE [result |-> FALSE, raised |-> FALSE, outbox |-> box]

send_welcome_email(box, user_email, smtp) ==
    IF smtp = "raised"
    THEN [result |-> FALSE, raised |-> TRUE, outbox |-> box]
    ELSE send_email(box, user_email, "Welcome to PixelForge Studio!", smtp)

(***************************************************************************)
(* Bootstrap script (scripts/init_db.py).                                  *)
(***************************************************************************)
\* the account is created without looking for an existing one
create_admin_user_unchecked ==
    /\ Len(users) < MaxUsers
    /\ users' = [create_user(users, ADMIN_EMAIL, ADMIN_PASSWORD)
                    EXCEPT ![Len(users) + 1].role = "ADMIN"]
    /\ last' = [op |-> "create_admin_user", status |-> 0, detail |-> "",
                created |-> TRUE, repeated |-> (last.op = "create_admin_user")]
    /\ UNCHANGED <<pending, catalog, storage>>
    /\ UNCHANGED <<mail, hash_seed>>

\* python scripts/init_db.py: `created` is what the run prints ("created
\* successfully" or "already exists"), `repeated` that the run follows
\* another run of the script directly
create_admin_user ==
    /\ IF get_user_by_email(users, ADMIN_EMAIL) # 0
       THEN UNCHANGED users
       ELSE /\ Len(users) < MaxUsers
            /\ users' = [create_user(users, ADMIN_EMAIL, ADMIN_PASSWORD)
                            EXCEPT ![Len(users) + 1].role = "ADMIN"]
    /\ last' = [op |-> "create_admin_user", status |-> 0, detail |-> "",
                created |-> (get_user_by_email(users, ADMIN_EMAIL) = 0),
                repeated |-> (last.op = "create_admin_user")]
    /\ UNCHANGED <<pending, catalog, storage>>
    /\ UNCHANGED <<mail, hash_seed>>

(***************************************************************************)
(* Auth router.                                                            *)
(***************************************************************************)
\* POST /auth/register up to and including the existence check
register_user_check(email, password) ==
    /\ IF ~UserCreate_valid(email, password)
       THEN /\ last' = [op |-> "register_user", status |-> 422,
                        detail |-> "validation error", email |-> email,
                        password |-> password, token |-> NoToken]
            /\ UNCHANGED pending
       ELSE IF get_user_by_email(users, email) # 0
       THEN /\ last' = [op |-> "register_user", status |-> 400,
                        detail |-> "Email already registered", email |-> email,
                        password |-> password, token |-> NoToken]
            /\ UNCHANGED pending
       ELSE /\ Cardinality(pending) < MaxInFlight
            /\ [email |-> email, password |-> password] \notin pending
            /\ pending' = pending \cup {[email |-> email, password |-> password]}
            /\ last' = [op |-> "register_user_check", status |-> 0,
                        detail |-> "", email |-> email,
                        password |-> password, token |-> NoToken]
    /\ UNCHANGED <<users, catalog, storage>>
    /\ UNCHANGED <<mail, hash_seed>>

\* the error of the welcome email reaches the handler's outer try block
welcome_email_error_escapes(w) == w.raised

\* try: send_welcome_email(...) except Exception: print(warning)
welcome_email_error(w) == FALSE

\* POST /auth/register from the insert on; welcome is what becomes of the
\* welcome email
register_user_create(req, welcome) ==
    /\ req \in pending
    /\ pending' = pending \ {req}
    /\ IF ~email_unique_index(users, req.email)
       THEN /\ last' = [op |-> "register_user", status |-> 500,
                        detail |-> "Failed to create user", email |-> req.email,
                        password |-> req.password, token |-> NoToken]
            /\ UNCHANGED <<users, outbox>>
       ELSE LET w == send_welcome_email(outbox, req.email, welcome)
            IN  /\ Len(users) < MaxUsers
                /\ users' = create_user(users, req.email, req.password)
                /\ outbox' = w.outbox
                /\ last' = IF welcome_email_error(w)
                           THEN [op |-> "register_user", status |-> 500,
                                 detail |-> "Failed to create user",
                                 email |-> req.email, password |-> req.password,
                                 token |-> NoToken, welcome |-> welcome]
                           ELSE [op |-> "register_user", status |-> 201,
                                 detail |-> "User registered successfully",
                                 email |-> users'[Len(users')].email,
                                 password |-> req.password,
                                 token |-> create_access_token(
                                               users'[Len(users')].email),
                                 welcome |-> welcome]
    /\ UNCHANGED <<catalog, storage>>
    /\ UNCHANGED <<background_tasks, hash_seed>>

login_response(op, us, email, password) ==
    LET user == authenticate_user(us, email, password)
    IN  IF user = 0
        THEN [op |-> op, status |-> 401,
              detail |-> "Incorrect email or password",
              success |-> FALSE, token |-> NoToken, user |-> 0, email |-> ""]
        ELSE [op |-> op, status |-> 200, detail |-> "Login successful",
              success |-> TRUE, token |-> create_access_token(us[user].email),
              user |-> user, email |-> us[user].email]

\* POST /auth/login
login_user(email, password) ==
    /\ last' = [login_response("login_user", users, email, password)
                   EXCEPT !.email = email] @@ [password |-> password]
    /\ UNCHANGED <<users, pending, catalog, storage>>
    /\ UNCHANGED <<mail, hash_seed>>

\* POST /auth/token
login_for_access_token(username, password) ==
    /\ last' = [login_response("login_for_access_token", users, username, password)
                   EXCEPT !.email = username] @@ [password |-> password]
    /\ UNCHANGED <<users, pending, catalog, storage>>
    /\ UNCHANGED <<mail, hash_seed>>

(***************************************************************************)
(* Users router.                                                           *)
(***************************************************************************)
me_response(us, g, credentials) ==
    IF g.status # 200 THEN Rejected("get_current_user_info", g, credentials)
    ELSE [op |-> "get_current_user_info", status |-> 200,
          detail |-> "User details retrieved successfully",
          credentials |-> credentials, caller |-> g.user,
          id |-> g.user, email |-> us[g.user].email, role |-> us[g.user].role]

\* GET /users/me
get_current_user_info(credentials) ==
    /\ \E g \in get_current_user(users, credentials) :
           last' = me_response(users, g, credentials)
    /\ UNCHANGED <<users, pending, catalog, storage>>
    /\ UNCHANGED <<mail, hash_seed>>

\* GET /users/
list_users(credentials, skip, limit) ==
    /\ \E g \in get_current_admin_user(users, credentials) :
           last' = IF g.status # 200 THEN Rejected("list_users", g, credentials)
                   ELSE [op |-> "list_users", status |-> 200,
                         detail |-> "Retrieved users successfully",
                         credentials |-> credentials, caller |-> g.user,
                         count |-> Len(get_users(users, skip, limit)),
                         total |-> get_users_count(users),
                         skip |-> skip, limit |-> limit]
    /\ UNCHANGED <<users, pending, catalog, storage>>
    /\ UNCHANGED <<mail, hash_seed>>

\* GET /users/{user_id}
get_user(credentials, user_id) ==
    /\ \E g \in get_current_admin_user(users, credentials) :
           last' = IF g.status # 200 THEN Rejected("get_user_by_id", g, credentials)
                   ELSE IF get_user_by_id(users, user_id) = 0
                   THEN [op |-> "get_user_by_id", status |-> 404,
                         detail |-> "User not found",
                         credentials |-> credentials, caller |-> g.user]
                   ELSE [op |-> "get_user_by_id", status |-> 200,
                         detail |-> "User details retrieved successfully",
                         credentials |-> credentials, caller |-> g.user,
                         id |-> user_id, email |-> users[user_id].email]
    /\ UNCHANGED <<users, pending, catalog, storage>>
    /\ UNCHANGED <<mail, hash_seed>>

(***************************************************************************)
(* Catalog inputs.  A missing optional string is "None", a missing         *)
(* optional identifier is 0 (identifiers are positive).                    *)
(***************************************************************************)
None == "None"
CategoryNames == {"Photo Magnets", "Fridge Magnets"}
Descriptions == {"Custom photo magnets for personal use"}
Titles == {"Beautiful Photo Magnet"}
Prices == {25}
ShortDescriptions == {"small magnets for fridges", "magnets"}
\* an uploaded file: no file name (an empty form part), acceptable, or refused
\* by _validate_image / the image decoder
Files == {"empty", "good", "bad_extension"}

(***************************************************************************)
(* Category repository.  A lookup returns the id, 0 for None.  A mutating  *)
(* operation returns what it raised ("" if nothing), the table it leaves   *)
(* and the id or truth value it returns.                                   *)
(***************************************************************************)
get_category_by_id(cs, category_id) ==
    IF category_id \in DOMAIN cs THEN category_id ELSE 0

\* the lookup never finds a row
get_category_by_name_finds_nothing(cs, name) == 0

get_category_by_name(cs, name) ==
    LET hits == {i \in DOMAIN cs : cs[i].name = name}
    IN  IF hits = {} THEN 0 ELSE CHOOSE i \in hits : \A j \in hits : i <= j

\* categories.name is declared unique
name_unique_index(cs, category_id, name) ==
    \A i \in DOMAIN cs : i # category_id => cs[i].name # name

products_of(ps, category_id) ==
    {p \in DOMAIN ps : ps[p].category_id = category_id}

Remove(f, k) == [i \in DOMAIN f \ {k} |-> f[i]]

\* the fields of update_data are written over the stored record
setattr(record, update_data) ==
    [f \in DOMAIN record |->
        IF f \in DOMAIN update_data THEN update_data[f] ELSE record[f]]

CategoryCRUD_create_category(cs, new_id, name, description) ==
    IF get_category_by_name(cs, name) # 0
    THEN [raised |-> "ValueError", detail |-> "Category with name already exists",
          categories |-> cs, result |-> 0]
    ELSE IF ~name_unique_index(cs, 0, name)
    THEN [raised |-> "IntegrityError", detail |-> "duplicate key",
          categories |-> cs, result |-> 0]
    ELSE [raised |-> "", detail |-> "",
          categories |-> cs @@ (new_id :> [name |-> name,
                                           description |-> description,
                                           is_active |-> TRUE]),
          result |-> new_id]

CategoryCRUD_update_category(cs, category_id, category_update) ==
    LET db_category == get_category_by_id(cs, category_id)
        renamed == /\ "name" \in DOMAIN category_update
                   /\ category_update.name # cs[db_category].name
    IN  IF db_category = 0
        THEN [raised |-> "", detail |-> "", categories |-> cs, result |-> 0]
        ELSE IF renamed /\ get_category_by_name(cs, category_update.name) # 0
        THEN [raised |-> "ValueError",
              detail |-> "Category with name already exists",
              categories |-> cs, result |-> 0]
        ELSE IF renamed /\ ~name_unique_index(cs, category_id, category_update.name)
        THEN [raised |-> "IntegrityError", detail |-> "duplicate key",
              categories |-> cs, result |-> 0]
        ELSE [raised |-> "", detail |-> "",
              categories |-> [cs EXCEPT ![category_id] =
                                 setattr(cs[category_id], category_update)],
              result |-> category_id]

\* the product-count guard is gone
has_products_never(ps, category_id) == FALSE

has_products(ps, category_id) == Cardinality(products_of(ps, category_id)) > 0

CategoryCRUD_delete_category(cs, ps, category_id) ==
    IF get_category_by_id(cs, category_id) = 0
    THEN [raised |-> "", detail |-> "", count |-> 0, categories |-> cs,
          result |-> FALSE]
    ELSE IF has_products(ps, category_id)
    THEN [raised |-> "ValueError",
          detail |-> "Cannot delete category. It has N associated products.",
          count |-> Cardinality(products_of(ps, category_id)),
          categories |-> cs, result |-> FALSE]
    ELSE [raised |-> "", detail |-> "", count |-> 0,
          categories |-> [cs EXCEPT ![category_id].is_active = FALSE],
          result |-> TRUE]

\* the category is removed without counting its products
CategoryCRUD_hard_delete_category_uncounted(cs, ps, category_id) ==
    IF get_category_by_id(cs, category_id) = 0
    THEN [raised |-> "", detail |-> "", count |-> 0, categories |-> cs,
          result |-> FALSE]
    ELSE [raised |-> "", detail |-> "", count |-> 0,
          categories |-> Remove(cs, category_id), result |-> TRUE]

CategoryCRUD_hard_delete_category(cs, ps, category_id) ==
    IF get_category_by_id(cs, category_id) = 0
    THEN [raised |-> "", detail |-> "", count |-> 0, categories |-> cs,
          result |-> FALSE]
    ELSE IF has_products(ps, category_id)
    THEN [raised |-> "ValueError",
          detail |-> "Cannot delete category. It has N associated products.",
          count |-> Cardinality(products_of(ps, category_id)),
          categories |-> cs, result |-> FALSE]
    ELSE [raised |-> "", detail |-> "", count |-> 0,
          categories |-> Remove(cs, category_id), result |-> TRUE]

(***************************************************************************)
(* Categories router.  update and delete raise their 404 inside the try    *)
(* block, whose last handler (except Exception) turns it into a 500.       *)
(***************************************************************************)
\* POST /categories/
create_category(credentials, name, description) ==
    /\ \E g \in get_current_admin_user(users, credentials) :
         LET r == CategoryCRUD_create_category(categories, next_category_id,
                                               name, description)
         IN  IF g.status # 200
             THEN /\ last' = Rejected("create_category", g, credentials)
                  /\ UNCHANGED <<categories, next_category_id>>
             ELSE IF r.raised # ""
             THEN /\ last' = [op |-> "create_category",
                              status |-> IF r.raised = "ValueError" THEN 400 ELSE 500,
                              detail |-> r.detail, caller |-> g.user,
                              name |-> name]
                  /\ UNCHANGED <<categories, next_category_id>>
             ELSE /\ next_category_id <= MaxCategoryId
                  /\ categories' = r.categories
                  /\ next_category_id' = next_category_id + 1
                  /\ last' = [op |-> "create_category", status |-> 201,
                              detail |-> "Category created successfully",
                              caller |-> g.user, name |-> name,
                              id |-> r.result]
    /\ UNCHANGED <<users, pending, products, next_product_id, storage>>
    /\ UNCHANGED <<mail, hash_seed>>

\* PUT /categories/{category_id}
update_category(credentials, category_id, category_update) ==
    /\ \E g \in get_current_admin_user(users, credentials) :
         LET r == CategoryCRUD_update_category(categories, category_id,
                                               category_update)
         IN  IF g.status # 200
             THEN /\ last' = Rejected("update_category", g, credentials)
                  /\ UNCHANGED categories
             ELSE IF r.raised # ""
             THEN /\ last' = [op |-> "update_category",
                              status |-> IF r.raised = "ValueError" THEN 400 ELSE 500,
                              detail |-> r.detail, caller |-> g.user,
                              id |-> category_id,
                              category_update |-> category_update]
                  /\ UNCHANGED categories
             ELSE IF r.result = 0
             THEN /\ last' = [op |-> "update_category", status |-> 500,
                              detail |-> "Failed to update category: 404: Category not found",
                              caller |-> g.user, id |-> category_id,
                              category_update |-> category_update]
                  /\ UNCHANGED categories
             ELSE /\ categories' = r.categories
                  /\ last' = [op |-> "update_category", status |-> 200,
                              detail |-> "Category updated successfully",
                              caller |-> g.user, id |-> category_id,
                              category_update |-> category_update]
    /\ UNCHANGED <<users, pending, next_category_id, products,
                   next_product_id, storage>>
    /\ UNCHANGED <<mail, hash_seed>>

\* DELETE /categories/{category_id}?hard_delete=
delete_category(credentials, category_id, hard_delete) ==
    /\ \E g \in get_current_admin_user(users, credentials) :
         LET r == IF hard_delete
                  THEN CategoryCRUD_hard_delete_category(categories, products,
                                                         category_id)
                  ELSE CategoryCRUD_delete_category(categories, products,
                                                    category_id)
         IN  IF g.status # 200
             THEN /\ last' = Rejected("delete_category", g, credentials)
                  /\ UNCHANGED categories
             ELSE IF r.raised # ""
             THEN /\ last' = [op |-> "delete_category",
                              status |-> IF r.raised = "ValueError" THEN 400 ELSE 500,
                              detail |-> r.detail, count |-> r.count,
                              caller |-> g.user, id |-> category_id,
                              hard_delete |-> hard_delete]
                  /\ UNCHANGED categories
             ELSE IF ~r.result
             THEN /\ last' = [op |-> "delete_category", status |-> 500,
                              detail |-> "Failed to delete category: 404: Category not found",
                              count |-> 0, caller |-> g.user, id |-> category_id,
                              hard_delete |-> hard_delete]
                  /\ UNCHANGED categories
             ELSE /\ categories' = r.categories
                  /\ last' = [op |-> "delete_category", status |-> 200,
                              detail |-> IF hard_delete
                                         THEN "Category permanently deleted successfully"
                                         ELSE "Category deactivated successfully",
                              count |-> 0, caller |-> g.user, id |-> category_id,
                              hard_delete |-> hard_delete]
    /\ UNCHANGED <<users, pending, next_category_id, products,
                   next_product_id, storage>>
    /\ UNCHANGED <<mail, hash_seed>>

(***************************************************************************)
(* DELETE /categories/{category_id} as two database calls.  The repository *)
(* counts the category's products, then saves or deletes the category it   *)
(* loaded; other requests can run between the two calls.  A request that   *)
(* fails a check answers as delete_category does.  At most one deletion of *)
(* a category is in flight.                                                *)
(***************************************************************************)
\* through Product.find(...).count()
delete_category_count(credentials, category_id, hard_delete) ==
    /\ \E g \in get_current_admin_user(users, credentials) :
           /\ g.status = 200
           /\ get_category_by_id(categories, category_id) # 0
           /\ ~has_products(products, category_id)
           /\ Cardinality(pending) < MaxInFlight
           /\ \A r \in pending :
                  ~(r.op = "delete_category" /\ r.id = category_id)
           /\ pending' = pending \cup
                  {[op |-> "delete_category", caller |-> g.user,
                    id |-> category_id, hard_delete |-> hard_delete]}
    /\ UNCHANGED <<users, catalog, storage, last>>
    /\ UNCHANGED <<mail, hash_seed>>

\* the products are counted once more before the write
delete_category_save_counts_again(req) ==
    /\ req \in pending
    /\ req.op = "delete_category"
    /\ pending' = pending \ {req}
    /\ IF has_products(products, req.id)
       THEN /\ UNCHANGED categories
            /\ last' = [op |-> "delete_category", status |-> 400,
                        detail |-> "Cannot delete category. It has N associated products.",
                        count |-> Cardinality(products_of(products, req.id)),
                        caller |-> req.caller, id |-> req.id,
                        hard_delete |-> req.hard_delete]
       ELSE /\ categories' = IF req.hard_delete
                             THEN Remove(categories, req.id)
                             ELSE [categories EXCEPT ![req.id].is_active = FALSE]
            /\ last' = [op |-> "delete_category", status |-> 200,
                        detail |-> IF req.hard_delete
                                   THEN "Category permanently deleted successfully"
                                   ELSE "Category deactivated successfully",
                        count |-> 0, caller |-> req.caller, id |-> req.id,
                        hard_delete |-> req.hard_delete]
    /\ UNCHANGED <<users, next_category_id, products, next_product_id, storage>>
    /\ UNCHANGED <<mail, hash_seed>>

\* db_category.save() with is_active = False, or db_category.delete(), and
\* the answer
delete_category_save(req) ==
    /\ req \in pending
    /\ req.op = "delete_category"
    /\ pending' = pending \ {req}
    /\ categories' = IF req.hard_delete
                     THEN Remove(categories, req.id)
                     ELSE [categories EXCEPT ![req.id].is_active = FALSE]
    /\ last' = [op |-> "delete_category", status |-> 200,
                detail |-> IF req.hard_delete
                           THEN "Category permanently deleted successfully"
                           ELSE "Category deactivated successfully",
                count |-> 0, caller |-> req.caller, id |-> req.id,
                hard_delete |-> req.hard_delete]
    /\ UNCHANGED <<users, next_category_id, products, next_product_id, storage>>
    /\ UNCHANGED <<mail, hash_seed>>

(***************************************************************************)
(* Upload service.  A stored image is named by the number that stands for  *)
(* its generated (uuid) file name.                                         *)
(***************************************************************************)
RECURSIVE upload_images(_, _, _, _)
upload_images(store, next, files, paths) ==
    IF files = <<>>
    THEN [raised |-> "", detail |-> "", image_store |-> store,
          next_image |-> next, paths |-> paths]
    ELSE IF Head(files) # "good"
    THEN [raised |-> "HTTPException", detail |-> "File extension not allowed",
          image_store |-> store, next_image |-> next, paths |-> paths]
    ELSE upload_images(store \cup {next}, next + 1, Tail(files),
                       Append(paths, next))

upload_product_images(store, next, files) ==
    IF Len(files) > 5
    THEN [raised |-> "HTTPException",
          detail |-> "Maximum 5 images allowed per product",
          image_store |-> store, next_image |-> next, paths |-> <<>>]
    ELSE upload_images(store, next, files, <<>>)

delete_product_images(store, image_paths) ==
    store \ {image_paths[i] : i \in 1..Len(image_paths)}

(***************************************************************************)
(* Product repository.                                                     *)
(***************************************************************************)
get_product_by_id(ps, product_id) ==
    IF product_id \in DOMAIN ps THEN product_id ELSE 0

\* any stored category is accepted, active or not
category_usable_ignores_active(cs, category_id) ==
    get_category_by_id(cs, category_id) # 0

\* "not category or not category.is_active" negated
category_usable(cs, category_id) ==
    /\ get_category_by_id(cs, category_id) # 0
    /\ cs[category_id].is_active

ProductCRUD_create_product(cs, ps, new_id, product) ==
    IF ~category_usable(cs, product.category_id)
    THEN [raised |-> "ValueError",
          detail |-> "Category with ID not found or inactive",
          products |-> ps, result |-> 0]
    ELSE [raised |-> "", detail |-> "",
          products |-> ps @@ (new_id :> [title |-> product.title,
                                         short_description |-> product.short_description,
                                         price |-> product.price,
                                         category_id |-> product.category_id,
                                         images |-> product.images,
                                         is_locked |-> FALSE]),
          result |-> new_id]

\* the lock is not looked at
is_locked_ignored(ps, product_id) == FALSE

is_locked(ps, product_id) == ps[product_id].is_locked

ProductCRUD_update_product(cs, ps, product_id, product_update) ==
    IF get_product_by_id(ps, product_id) = 0
    THEN [raised |-> "", detail |-> "", products |-> ps, result |-> 0]
    ELSE IF is_locked(ps, product_id)
    THEN [raised |-> "ValueError", detail |-> "Cannot update locked product",
          products |-> ps, result |-> 0]
    ELSE IF /\ "category_id" \in DOMAIN product_update
            /\ product_update.category_id # 0
            /\ ~category_usable(cs, product_update.category_id)
    THEN [raised |-> "ValueError",
          detail |-> "Category with ID not found or inactive",
          products |-> ps, result |-> 0]
    ELSE [raised |-> "", detail |-> "",
          products |-> [ps EXCEPT ![product_id] =
                           setattr(ps[product_id], product_update)],
          result |-> product_id]

\* the record is removed first and the images after it
ProductCRUD_delete_product_record_first(ps, store, product_id) ==
    IF get_product_by_id(ps, product_id) = 0
    THEN [raised |-> "", detail |-> "", products |-> ps,
          image_store |-> store, result |-> FALSE, calls |-> <<>>]
    ELSE IF is_locked(ps, product_id)
    THEN [raised |-> "ValueError", detail |-> "Cannot delete locked product",
          products |-> ps, image_store |-> store, result |-> FALSE,
          calls |-> <<>>]
    ELSE [raised |-> "", detail |-> "", products |-> Remove(ps, product_id),
          image_store |-> delete_product_images(store, ps[product_id].images),
          result |-> TRUE,
          calls |-> <<[call |-> "delete", id |-> product_id],
                      [call |-> "delete_product_images",
                       image_paths |-> ps[product_id].images]>>]

\* calls: what the repository asks of the image service and of the store,
\* in the order it asks
ProductCRUD_delete_product(ps, store, product_id) ==
    IF get_product_by_id(ps, product_id) = 0
    THEN [raised |-> "", detail |-> "", products |-> ps,
          image_store |-> store, result |-> FALSE, calls |-> <<>>]
    ELSE IF is_locked(ps, product_id)
    THEN [raised |-> "ValueError", detail |-> "Cannot delete locked product",
          products |-> ps, image_store |-> store, result |-> FALSE,
          calls |-> <<>>]
    ELSE [raised |-> "", detail |-> "", products |-> Remove(ps, product_id),
          image_store |-> IF ps[product_id].images # <<>>
                          THEN delete_product_images(store, ps[product_id].images)
                          ELSE store,
          result |-> TRUE,
          calls |-> (IF ps[product_id].images # <<>>
                     THEN <<[call |-> "delete_product_images",
                             image_paths |-> ps[product_id].images]>>
                     ELSE <<>>)
                    \o <<[call |-> "delete", id |-> product_id]>>]

\* the flag is flipped instead of set
ProductCRUD_lock_product_toggles(ps, product_id) ==
    IF get_product_by_id(ps, product_id) = 0
    THEN [products |-> ps, result |-> 0]
    ELSE [products |-> [ps EXCEPT ![product_id].is_locked = ~@],
          result |-> product_id]

ProductCRUD_lock_product(ps, product_id) ==
    IF get_product_by_id(ps, product_id) = 0
    THEN [products |-> ps, result |-> 0]
    ELSE [products |-> [ps EXCEPT ![product_id].is_locked = TRUE],
          result |-> product_id]

ProductCRUD_unlock_product(ps, product_id) ==
    IF get_product_by_id(ps, product_id) = 0
    THEN [products |-> ps, result |-> 0]
    ELSE [products |-> [ps EXCEPT ![product_id].is_locked = FALSE],
          result |-> product_id]

(***************************************************************************)
(* Products router.                                                        *)
(***************************************************************************)
word_count(short_description) ==
    CASE short_description = "small magnets for fridges" -> 4
      [] short_description = "magnets" -> 1
      [] OTHER -> 0

short_description_rejected(short_description) ==
    /\ short_description \notin {None, ""}
    /\ (word_count(short_description) < 4 \/ word_count(short_description) > 6)

valid_images(images) == SelectSeq(images, LAMBDA f : f # "empty")

\* the category's name as the response denormalizes it, None without one
category_name(cs, ps, product_id) ==
    IF ps[product_id].category_id \in DOMAIN cs
    THEN cs[ps[product_id].category_id].name
    ELSE None

ProductResponse(op, status, detail, g, product_id, category_id) ==
    [op |-> op, status |-> status, detail |-> detail, caller |-> g.user,
     id |-> product_id, category_id |-> category_id]

\* the files are stored before the category is looked up
create_product_uploads_first(credentials, title, short_description, price, category_id, images) ==
    /\ \E g \in get_current_admin_user(users, credentials) :
         LET files == valid_images(images)
             up == upload_product_images(image_store, next_image, files)
             r == ProductCRUD_create_product(categories, products, next_product_id,
                      [title |-> title, short_description |-> short_description,
                       price |-> price, category_id |-> category_id,
                       images |-> up.paths])
             Fail(status, detail) ==
                 /\ last' = ProductResponse("create_product", status, detail, g,
                                            0, category_id)
                            @@ [files |-> Len(files), category_name |-> None]
                 /\ UNCHANGED <<products, next_product_id>>
         IN  IF g.status # 200
             THEN /\ last' = Rejected("create_product", g, credentials)
                  /\ UNCHANGED <<products, next_product_id, storage>>
             ELSE IF short_description_rejected(short_description)
             THEN /\ Fail(400, "Short description must be exactly 4-6 words")
                  /\ UNCHANGED storage
             ELSE IF get_category_by_id(categories, category_id) = 0
             THEN /\ up.next_image <= MaxImage + 1
                  /\ Fail(400, "Category with ID not found")
                  /\ image_store' = up.image_store
                  /\ next_image' = up.next_image
             ELSE IF ~categories[category_id].is_active
             THEN /\ up.next_image <= MaxImage + 1
                  /\ Fail(400, "Category is currently inactive")
                  /\ image_store' = up.image_store
                  /\ next_image' = up.next_image
             ELSE IF Len(files) > 5
             THEN /\ Fail(400, "Maximum 5 images allowed per product")
                  /\ UNCHANGED storage
             ELSE IF up.raised # ""
             THEN /\ up.next_image <= MaxImage + 1
                  /\ Fail(400, up.detail)
                  /\ image_store' = up.image_store
                  /\ next_image' = up.next_image
             ELSE IF r.raised # ""
             THEN /\ up.next_image <= MaxImage + 1
                  /\ Fail(400, r.detail)
                  /\ image_store' = up.image_store
                  /\ next_image' = up.next_image
             ELSE /\ next_product_id <= MaxProductId
                  /\ up.next_image <= MaxImage + 1
                  /\ products' = r.products
                  /\ next_product_id' = next_product_id + 1
                  /\ image_store' = up.image_store
                  /\ next_image' = up.next_image
                  /\ last' = ProductResponse("create_product", 201,
                                 "Product created successfully", g, r.result,
                                 category_id)
                             @@ [files |-> Len(files), category_name |->
                                    category_name(categories, products', r.result)]
    /\ UNCHANGED <<users, pending, categories, next_category_id>>
    /\ UNCHANGED <<mail, hash_seed>>

\* POST /products/
create_product(credentials, title, short_description, price, category_id, images) ==
    /\ \E g \in get_current_admin_user(users, credentials) :
         LET files == valid_images(images)
             up == upload_product_images(image_store, next_image, files)
             r == ProductCRUD_create_product(categories, products, next_product_id,
                      [title |-> title, short_description |-> short_description,
                       price |-> price, category_id |-> category_id,
                       images |-> up.paths])
             Fail(status, detail) ==
                 /\ last' = ProductResponse("create_product", status, detail, g,
                                            0, category_id)
                            @@ [files |-> Len(files), category_name |-> None]
                 /\ UNCHANGED <<products, next_product_id>>
         IN  IF g.status # 200
             THEN /\ last' = Rejected("create_product", g, credentials)
                  /\ UNCHANGED <<products, next_product_id, storage>>
             ELSE IF short_description_rejected(short_description)
             THEN /\ Fail(400, "Short description must be exactly 4-6 words")
                  /\ UNCHANGED storage
             ELSE IF get_category_by_id(categories, category_id) = 0
             THEN /\ Fail(400, "Category with ID not found")
                  /\ UNCHANGED storage
             ELSE IF ~categories[category_id].is_active
             THEN /\ Fail(400, "Category is currently inactive")
                  /\ UNCHANGED storage
             ELSE IF Len(files) > 5
             THEN /\ Fail(400, "Maximum 5 images allowed per product")
                  /\ UNCHANGED storage
             ELSE IF up.raised # ""
             THEN /\ up.next_image <= MaxImage + 1
                  /\ Fail(400, up.detail)
                  /\ image_store' = up.image_store
                  /\ next_image' = up.next_image
             ELSE IF r.raised # ""
             THEN /\ up.next_image <= MaxImage + 1
                  /\ Fail(400, r.detail)
                  /\ image_store' = up.image_store
                  /\ next_image' = up.next_image
             ELSE /\ next_product_id <= MaxProductId
                  /\ up.next_image <= MaxImage + 1
                  /\ products' = r.products
                  /\ next_product_id' = next_product_id + 1
                  /\ image_store' = up.image_store
                  /\ next_image' = up.next_image
                  /\ last' = ProductResponse("create_product", 201,
                                 "Product created successfully", g, r.result,
                                 category_id)
                             @@ [files |-> Len(files), category_name |->
                                    category_name(categories, products', r.result)]
    /\ UNCHANGED <<users, pending, categories, next_category_id>>
    /\ UNCHANGED <<mail, hash_seed>>

\* the collected fields also set the lock
update_data_locks(title, short_description, price, category_id, image_paths) ==
    (IF title # None THEN [title |-> title] ELSE <<>>)
    @@ (IF short_description # None
        THEN [short_description |-> short_description] ELSE <<>>)
    @@ (IF price # 0 THEN [price |-> price] ELSE <<>>)
    @@ (IF category_id # 0 THEN [category_id |-> category_id] ELSE <<>>)
    @@ (IF image_paths # <<>> THEN [images |-> image_paths] ELSE <<>>)
    @@ [is_locked |-> TRUE]

\* the fields of the form that are not None, as the router collects them
update_data(title, short_description, price, category_id, image_paths) ==
    (IF title # None THEN [title |-> title] ELSE <<>>)
    @@ (IF short_description # None
        THEN [short_description |-> short_description] ELSE <<>>)
    @@ (IF price # 0 THEN [price |-> price] ELSE <<>>)
    @@ (IF category_id # 0 THEN [category_id |-> category_id] ELSE <<>>)
    @@ (IF image_paths # <<>> THEN [images |-> image_paths] ELSE <<>>)

\* PUT /products/{product_id}; price 0 and category_id 0 stand for None
update_product(credentials, product_id, title, short_description, price, category_id, images) ==
    /\ \E g \in get_current_admin_user(users, credentials) :
         LET files == valid_images(images)
             existing_product == get_product_by_id(products, product_id)
             kept == IF files # <<>> /\ products[product_id].images # <<>>
                     THEN delete_product_images(image_store,
                                                products[product_id].images)
                     ELSE image_store
             up == IF files # <<>>
                   THEN upload_product_images(kept, next_image, files)
                   ELSE [raised |-> "", detail |-> "", image_store |-> image_store,
                         next_image |-> next_image, paths |-> <<>>]
             data == update_data(title, short_description, price, category_id,
                                 up.paths)
             r == ProductCRUD_update_product(categories, products, product_id, data)
             Fail(status, detail) ==
                 /\ last' = ProductResponse("update_product", status, detail, g,
                                            product_id, category_id)
                            @@ [files |-> Len(files), category_name |-> None, update_data |-> data]
                 /\ UNCHANGED products
         IN  IF g.status # 200
             THEN /\ last' = Rejected("update_product", g, credentials)
                  /\ UNCHANGED <<products, storage>>
             ELSE IF existing_product = 0
             THEN /\ last' = ProductResponse("update_product", 500,
                                 "Failed to update product: 404: Product not found",
                                 g, product_id, category_id)
                             @@ [files |-> Len(files), category_name |-> None, update_data |-> <<>>]
                  /\ UNCHANGED <<products, storage>>
             ELSE IF short_description_rejected(short_description)
             THEN /\ last' = ProductResponse("update_product", 500,
                                 "Failed to update product: 400: Short description must be 4-6 words",
                                 g, product_id, category_id)
                             @@ [files |-> Len(files), category_name |-> None, update_data |-> <<>>]
                  /\ UNCHANGED <<products, storage>>
             ELSE IF Len(files) > 5
             THEN /\ last' = ProductResponse("update_product", 500,
                                 "Failed to update product: 400: Maximum 5 images allowed per product",
                                 g, product_id, category_id)
                             @@ [files |-> Len(files), category_name |-> None, update_data |-> <<>>]
                  /\ UNCHANGED <<products, storage>>
             ELSE IF up.raised # ""
             THEN /\ up.next_image <= MaxImage + 1
                  /\ Fail(500, "Failed to update product: 400: File extension not allowed")
                  /\ image_store' = up.image_store
                  /\ next_image' = up.next_image
             ELSE IF data = <<>>
             THEN /\ Fail(500, "Failed to update product: 400: No fields provided for update")
                  /\ UNCHANGED storage
             ELSE IF r.raised # ""
             THEN /\ up.next_image <= MaxImage + 1
                  /\ Fail(400, r.detail)
                  /\ image_store' = up.image_store
                  /\ next_image' = up.next_image
             ELSE /\ up.next_image <= MaxImage + 1
                  /\ products' = r.products
                  /\ image_store' = up.image_store
                  /\ next_image' = up.next_image
                  /\ last' = ProductResponse("update_product", 200,
                                 "Product updated successfully", g, product_id,
                                 category_id)
                             @@ [files |-> Len(files), category_name |->
                                    category_name(categories, products', product_id),
                                 update_data |-> data]
    /\ UNCHANGED <<users, pending, categories, next_category_id, next_product_id>>
    /\ UNCHANGED <<mail, hash_seed>>

\* DELETE /products/{product_id}
delete_product(credentials, product_id) ==
    /\ \E g \in get_current_admin_user(users, credentials) :
         LET r == ProductCRUD_delete_product(products, image_store, product_id)
         IN  IF g.status # 200
             THEN /\ last' = Rejected("delete_product", g, credentials)
                  /\ UNCHANGED <<products, image_store>>
             ELSE IF r.raised # ""
             THEN /\ last' = ProductResponse("delete_product", 400, r.detail, g,
                                             product_id, 0)
                             @@ [calls |-> r.calls]
                  /\ UNCHANGED <<products, image_store>>
             ELSE IF ~r.result
             THEN /\ last' = ProductResponse("delete_product", 500,
                                 "Failed to delete product: 404: Product not found",
                                 g, product_id, 0)
                             @@ [calls |-> r.calls]
                  /\ UNCHANGED <<products, image_store>>
             ELSE /\ products' = r.products
                  /\ image_store' = r.image_store
                  /\ last' = ProductResponse("delete_product", 200,
                                 "Product deleted successfully", g, product_id, 0)
                             @@ [calls |-> r.calls]
    /\ UNCHANGED <<users, pending, categories, next_category_id,
                   next_product_id, next_image>>
    /\ UNCHANGED <<mail, hash_seed>>

\* PATCH /products/{product_id}/lock
lock_product(credentials, product_id) ==
    /\ \E g \in get_current_admin_user(users, credentials) :
         LET r == ProductCRUD_lock_product(products, product_id)
         IN  IF g.status # 200
             THEN /\ last' = Rejected("lock_product", g, credentials)
                  /\ UNCHANGED products
             ELSE IF r.result = 0
             THEN /\ last' = ProductResponse("lock_product", 500,
                                 "Failed to lock product: 404: Product not found",
                                 g, product_id, 0)
                  /\ UNCHANGED products
             ELSE /\ products' = r.products
                  /\ last' = ProductResponse("lock_product", 200,
                                 "Product locked successfully", g, product_id, 0)
    /\ UNCHANGED <<users, pending, categories, next_category_id,
                   next_product_id, storage>>
    /\ UNCHANGED <<mail, hash_seed>>

\* PATCH /products/{product_id}/unlock
unlock_product(credentials, product_id) ==
    /\ \E g \in get_current_admin_user(users, credentials) :
         LET r == ProductCRUD_unlock_product(products, product_id)
         IN  IF g.status # 200
             THEN /\ last' = Rejected("unlock_product", g, credentials)
                  /\ UNCHANGED products
             ELSE IF r.result = 0
             THEN /\ last' = ProductResponse("unlock_product", 500,
                                 "Failed to unlock product: 404: Product not found",
                                 g, product_id, 0)
                  /\ UNCHANGED products
             ELSE /\ products' = r.products
                  /\ last' = ProductResponse("unlock_product", 200,
                                 "Product unlocked successfully", g, product_id, 0)
    /\ UNCHANGED <<users, pending, categories, next_category_id,
                   next_product_id, storage>>
    /\ UNCHANGED <<mail, hash_seed>>

(***************************************************************************)
(* PUT /products/{product_id} without files as two database calls.  The    *)
(* repository loads the product and checks it, then saves the object it    *)
(* loaded; other requests can run between the two calls.  A request that   *)
(* fails a check answers as update_product does.  At most one update of a  *)
(* product is in flight.                                                   *)
(***************************************************************************)
\* the product is loaded whatever its lock says
update_product_load_ignores_lock(credentials, product_id, product_update) ==
    /\ \E g \in get_current_admin_user(users, credentials) :
           /\ g.status = 200
           /\ get_product_by_id(products, product_id) # 0
           /\ Cardinality(pending) < MaxInFlight
           /\ \A r \in pending :
                  ~(r.op = "update_product" /\ r.id = product_id)
           /\ pending' = pending \cup
                  {[op |-> "update_product", caller |-> g.user,
                    id |-> product_id, db_product |-> products[product_id],
                    update_data |-> product_update]}
    /\ UNCHANGED <<users, catalog, storage, last>>
    /\ UNCHANGED <<mail, hash_seed>>

\* through get_product_by_id and the checks of the lock and the category
update_product_load(credentials, product_id, product_update) ==
    /\ \E g \in get_current_admin_user(users, credentials) :
           /\ g.status = 200
           /\ product_update # <<>>
           /\ get_product_by_id(products, product_id) # 0
           /\ ~is_locked(products, product_id)
           /\ ("category_id" \in DOMAIN product_update
                   => category_usable(categories, product_update.category_id))
           /\ Cardinality(pending) < MaxInFlight
           /\ \A r \in pending :
                  ~(r.op = "update_product" /\ r.id = product_id)
           /\ pending' = pending \cup
                  {[op |-> "update_product", caller |-> g.user,
                    id |-> product_id, db_product |-> products[product_id],
                    update_data |-> product_update]}
    /\ UNCHANGED <<users, catalog, storage, last>>
    /\ UNCHANGED <<mail, hash_seed>>

\* setattr on the loaded object, db_product.save() and the answer.  The
\* document store's save() writes every field of the loaded object over the
\* stored document (whole); the relational session writes the assigned
\* fields alone.
update_product_save(req, whole) ==
    /\ req \in pending
    /\ req.op = "update_product"
    /\ req.id \in DOMAIN products
    /\ pending' = pending \ {req}
    /\ products' = [products EXCEPT ![req.id] =
                       setattr(IF whole THEN req.db_product ELSE products[req.id],
                               req.update_data)]
    /\ last' = ProductResponse("update_product", 200,
                   "Product updated successfully", [user |-> req.caller],
                   req.id, 0)
               @@ [files |-> 0,
                   category_name |-> category_name(categories, products', req.id),
                   update_data |-> req.update_data]
    /\ UNCHANGED <<users, categories, next_category_id, next_product_id, storage>>
    /\ UNCHANGED <<mail, hash_seed>>

\* GET /products/imagekit/auth; imagekit tells whether the service module
\* could be imported and whether its three credentials are configured
get_imagekit_auth(credentials, imagekit) ==
    /\ \E g \in get_current_admin_user(users, credentials) :
         last' = IF g.status # 200
                 THEN Rejected("get_imagekit_auth", g, credentials)
                 ELSE IF imagekit = "unavailable"
                 THEN [op |-> "get_imagekit_auth", status |-> 503,
                       detail |-> "ImageKit service not available",
                       caller |-> g.user]
                 ELSE IF imagekit = "unconfigured"
                 THEN [op |-> "get_imagekit_auth", status |-> 500,
                       detail |-> "Failed to get ImageKit authentication",
                       caller |-> g.user]
                 ELSE [op |-> "get_imagekit_auth", status |-> 200,
                       detail |-> "ImageKit authentication parameters retrieved successfully",
                       caller |-> g.user]
    /\ UNCHANGED <<users, pending, catalog, storage>>
    /\ UNCHANGED <<mail, hash_seed>>

(***************************************************************************)
(* Listings.  The query string of a request is the record of the           *)
(* parameters it supplies; a result page is the sequence of identifiers in *)
(* storage order.                                                          *)
(***************************************************************************)
Query(query, name, default) ==
    IF name \in DOMAIN query THEN query[name] ELSE default

\* skip: Query(0, ge=0), limit: Query(100, ge=1, le=1000)
pagination_valid(query) ==
    /\ Query(query, "skip", 0) >= 0
    /\ Query(query, "limit", 100) >= 1
    /\ Query(query, "limit", 100) <= 1000

RECURSIVE SortedSeq(_)
SortedSeq(S) ==
    IF S = {} THEN <<>>
    ELSE LET x == CHOOSE y \in S : \A z \in S : y <= z
         IN  <<x>> \o SortedSeq(S \ {x})

\* .skip(skip).limit(limit)
Page(rows, skip, limit) ==
    SubSeq(rows, skip + 1,
           IF skip + limit < Len(rows) THEN skip + limit ELSE Len(rows))

ProductCRUD_get_products_count(cs, ps, category_id) ==
    IF category_id # 0
    THEN IF get_category_by_id(cs, category_id) = 0 THEN 0
         ELSE Cardinality({p \in DOMAIN ps : ps[p].category_id = category_id})
    ELSE Cardinality(DOMAIN ps)

ProductCRUD_get_products(cs, ps, skip, limit, category_id) ==
    IF category_id # 0
    THEN IF get_category_by_id(cs, category_id) = 0 THEN <<>>
         ELSE Page(SortedSeq({p \in DOMAIN ps : ps[p].category_id = category_id}),
                   skip, limit)
    ELSE Page(SortedSeq(DOMAIN ps), skip, limit)

\* the filter on the lock flag is left out
unlocked_everything(ps) == DOMAIN ps

\* Product.is_locked == False
unlocked(ps) == {p \in DOMAIN ps : ~ps[p].is_locked}

ProductCRUD_get_unlocked_products_count(cs, ps, category_id) ==
    IF category_id # 0
    THEN IF get_category_by_id(cs, category_id) = 0 THEN 0
         ELSE Cardinality({p \in unlocked(ps) : ps[p].category_id = category_id})
    ELSE Cardinality(unlocked(ps))

ProductCRUD_get_unlocked_products(cs, ps, skip, limit, category_id) ==
    IF category_id # 0
    THEN IF get_category_by_id(cs, category_id) = 0 THEN <<>>
         ELSE Page(SortedSeq({p \in unlocked(ps) : ps[p].category_id = category_id}),
                   skip, limit)
    ELSE Page(SortedSeq(unlocked(ps)), skip, limit)

\* the answer of the two product listings, which differ in the repository
\* calls alone
product_listing(op, failure, query, data, total) ==
    LET category_id == Query(query, "category_id", 0)
    IN  IF ~pagination_valid(query)
        THEN [op |-> op, status |-> 422, detail |-> "validation error",
              query |-> query, data |-> <<>>, total |-> 0]
        ELSE IF category_id # 0 /\ ~category_usable(categories, category_id)
        THEN [op |-> op, status |-> 500, detail |-> failure,
              query |-> query, data |-> <<>>, total |-> 0]
        ELSE [op |-> op, status |-> 200, detail |-> "Retrieved products successfully",
              query |-> query, data |-> data, total |-> total]

\* GET /products/unlocked
list_unlocked_products(query) ==
    /\ last' = product_listing("list_unlocked_products",
                   "Failed to retrieve unlocked products: 400: Category with ID not found or inactive",
                   query,
                   ProductCRUD_get_unlocked_products(categories, products,
                       Query(query, "skip", 0), Query(query, "limit", 100),
                       Query(query, "category_id", 0)),
                   ProductCRUD_get_unlocked_products_count(categories, products,
                       Query(query, "category_id", 0)))
    /\ UNCHANGED <<users, pending, catalog, storage>>
    /\ UNCHANGED <<mail, hash_seed>>

\* GET /products/
list_products(query) ==
    /\ last' = product_listing("list_products",
                   "Failed to retrieve products: 400: Category with ID not found or inactive",
                   query,
                   ProductCRUD_get_products(categories, products,
                       Query(query, "skip", 0), Query(query, "limit", 100),
                       Query(query, "category_id", 0)),
                   ProductCRUD_get_products_count(categories, products,
                       Query(query, "category_id", 0)))
    /\ UNCHANGED <<users, pending, catalog, storage>>
    /\ UNCHANGED <<mail, hash_seed>>

\* every category counts as active
active_everything(cs) == DOMAIN cs

\* Category.is_active == True
active(cs) == {c \in DOMAIN cs : cs[c].is_active}

CategoryCRUD_get_categories(cs, skip, limit, active_only) ==
    IF active_only THEN Page(SortedSeq(active(cs)), skip, limit)
    ELSE Page(SortedSeq(DOMAIN cs), skip, limit)

CategoryCRUD_get_categories_count(cs, active_only) ==
    IF active_only THEN Cardinality(active(cs)) ELSE Cardinality(DOMAIN cs)

category_listing(op, query, active_only) ==
    IF ~pagination_valid(query)
    THEN [op |-> op, status |-> 422, detail |-> "validation error",
          query |-> query, data |-> <<>>, total |-> 0]
    ELSE [op |-> op, status |-> 200,
          detail |-> "Retrieved categories successfully", query |-> query,
          data |-> CategoryCRUD_get_categories(categories,
                       Query(query, "skip", 0), Query(query, "limit", 100),
                       active_only),
          total |-> CategoryCRUD_get_categories_count(categories, active_only)]

\* GET /categories/
list_categories(query) ==
    /\ last' = category_listing("list_categories", query,
                                Query(query, "active_only", FALSE))
    /\ UNCHANGED <<users, pending, catalog, storage>>
    /\ UNCHANGED <<mail, hash_seed>>

\* GET /categories/active
list_active_categories(query) ==
    /\ last' = category_listing("list_active_categories", query, TRUE)
    /\ UNCHANGED <<users, pending, catalog, storage>>
    /\ UNCHANGED <<mail, hash_seed>>

\* GET /categories/{category_id}
get_category(category_id) ==
    /\ last' = IF get_category_by_id(categories, category_id) = 0
               THEN [op |-> "get_category", status |-> 404,
                     detail |-> "Category not found", id |-> category_id]
               ELSE [op |-> "get_category", status |-> 200,
                     detail |-> "Category details retrieved successfully",
                     id |-> category_id,
                     data |-> categories[category_id]]
    /\ UNCHANGED <<users, pending, catalog, storage>>
    /\ UNCHANGED <<mail, hash_seed>>

\* GET /users/ with its query string
list_users_request(credentials, query) ==
    list_users(credentials, Query(query, "skip", 0), Query(query, "limit", 100))

(***************************************************************************)
(* Inquiry router.                                                         *)
(***************************************************************************)
CUSTOMER_EMAIL == "customer@example.com"

\* str.strip() on the messages of the model
strip(message) ==
    CASE message = "   too short   " -> "too short"
      [] OTHER -> message

\* InquiryRequest.validate_message
InquiryRequest_valid(inquiry) ==
    /\ strip(inquiry.message) # ""
    /\ Len(strip(inquiry.message)) >= 10

Inquiries ==
    [email : {CUSTOMER_EMAIL},
     message : {"Do you ship abroad?", "Please send me your price list.",
                "   too short   ", ""}]

\* The interpreter salts the hash of a str with a secret it draws when the
\* process starts (PYTHONHASHSEED is not set anywhere in the repository).
HashSeeds == {0, 1}

\* hash(s) in a process whose secret is seed.  SipHash itself is not computed:
\* the table keeps what matters, a value fixed by the secret and the string.
hash(seed, s) == (Len(s) * 31 + 1) * (seed * 7919 + 104729)

\* the 4-digit suffix computed from another field of the inquiry
reference_id_of_message(seed, inquiry) == hash(seed, inquiry.message) % 10000

\* hash(inquiry.email) % 10000, the suffix of INQ-{YYYYMMDD}-{4 digits}; all
\* requests of the model fall on one date
reference_id(seed, inquiry) == hash(seed, inquiry.email) % 10000

\* the emails are sent while the request is handled and decide its answer
submit_inquiry_sends_inline(inquiry) ==
    /\ InquiryRequest_valid(inquiry)
    /\ \E smtp \in SmtpOutcomes :
         LET r == send_email(outbox, inquiry.email,
                             "Thank you for contacting PixelForge Studio", smtp)
         IN  /\ outbox' = r.outbox
             /\ last' = [op |-> "submit_inquiry",
                         status |-> IF r.result THEN 201 ELSE 500,
                         detail |-> "Thank you for your inquiry! We have received your message and will get back to you soon.",
                         inquiry |-> inquiry,
                         reference_id |-> reference_id(hash_seed, inquiry),
                         state |-> "received", process |-> hash_seed]
    /\ UNCHANGED <<users, pending, catalog, storage, background_tasks,
                   hash_seed>>

\* POST /inquiry/contact
submit_inquiry(inquiry) ==
    /\ IF ~InquiryRequest_valid(inquiry)
       THEN /\ last' = [op |-> "submit_inquiry", status |-> 422,
                        detail |-> "validation error", inquiry |-> inquiry,
                        reference_id |-> 0, state |-> "",
                        process |-> hash_seed]
            /\ UNCHANGED background_tasks
       ELSE /\ Len(background_tasks) < MaxInFlight
            /\ background_tasks' =
                   Append(background_tasks,
                          [task |-> "send_inquiry_notification",
                           inquiry_data |-> [email |-> inquiry.email,
                                             message |-> strip(inquiry.message)]])
            /\ last' = [op |-> "submit_inquiry", status |-> 201,
                        detail |-> "Thank you for your inquiry! We have received your message and will get back to you soon.",
                        inquiry |-> inquiry,
                        reference_id |-> reference_id(hash_seed, inquiry),
                        state |-> "received", process |-> hash_seed]
    /\ UNCHANGED <<users, pending, catalog, storage, outbox, hash_seed>>

\* the background task of an answered inquiry: the notification to the
\* administrator, then the confirmation to the customer
send_inquiry_notification(i, admin_smtp, customer_smtp) ==
    /\ i \in DOMAIN background_tasks
    /\ LET inquiry_data == background_tasks[i].inquiry_data
           admin == send_email(outbox, ADMIN_EMAIL, "New Inquiry", admin_smtp)
           customer == send_email(admin.outbox, inquiry_data.email,
                           "Thank you for contacting PixelForge Studio",
                           customer_smtp)
       IN  /\ outbox' = customer.outbox
           /\ last' = [op |-> "send_inquiry_notification", status |-> 0,
                       detail |-> "", inquiry_data |-> inquiry_data,
                       reference_id |-> reference_id(hash_seed, inquiry_data),
                       admin_success |-> admin.result,
                       customer_success |-> customer.result,
                       result |-> (admin.result /\ customer.result),
                       process |-> hash_seed]
    /\ background_tasks' = [j \in 1..(Len(background_tasks) - 1) |->
                               IF j < i THEN background_tasks[j]
                               ELSE background_tasks[j + 1]]
    /\ UNCHANGED <<users, pending, catalog, storage, hash_seed>>

\* uvicorn.run(..., reload=True): the server process is replaced by a new
\* one once the running one has finished its requests and their tasks; the
\* database and the mail already sent stay
restart(seed) ==
    /\ pending = {}
    /\ background_tasks = <<>>
    /\ hash_seed' = seed
    /\ UNCHANGED <<users, pending, catalog, storage, mail, last>>

(***************************************************************************)
(* Accounts and authentication: an empty database, then the bootstrap      *)
(* script and the auth and users routers.                                  *)
(***************************************************************************)
InitAuth ==
    /\ users = <<>>
    /\ pending = {}
    /\ categories = <<>>
    /\ next_category_id = 1
    /\ products = <<>>
    /\ next_product_id = 1
    /\ image_store = {}
    /\ next_image = 1
    /\ background_tasks = <<>>
    /\ outbox = {}
    /\ hash_seed = 0
    /\ last = Response("start", 0, "")

NextAuth ==
    \/ create_admin_user
    \/ \E email \in Emails, password \in Passwords :
           register_user_check(email, password)
    \/ \E req \in pending : register_user_create(req, "sent")
    \/ \E email \in Emails, password \in Passwords : login_user(email, password)
    \/ \E email \in Emails, password \in Passwords :
           login_for_access_token(email, password)
    \/ \E credentials \in Credentials : get_current_user_info(credentials)
    \/ \E credentials \in Credentials, page \in {<<0, 100>>, <<1, 1>>} :
           list_users(credentials, page[1], page[2])
    \/ \E credentials \in Credentials, user_id \in 1..MaxUsers :
           get_user(credentials, user_id)

SpecAuth == InitAuth /\ [][NextAuth]_vars

(***************************************************************************)
(* The catalog: a database holding the bootstrap administrator and one     *)
(* registered user, then the categories and products routers.              *)
(***************************************************************************)
USER_EMAIL == "test@pixelforgestudio.in"

CatalogCredentials ==
    {InvalidToken, create_access_token(ADMIN_EMAIL),
     create_access_token(USER_EMAIL)}

\* partial updates of a category: only the supplied fields are present
CategoryUpdates ==
    [name : CategoryNames] \cup [is_active : BOOLEAN]
        \cup [name : CategoryNames, is_active : {TRUE}]

\* the form of PUT /products/{product_id}: title, price, category_id
ProductForms == {<<None, 0, c>> : c \in 0..MaxCategoryId}

InitCatalog ==
    /\ users = [create_user(create_user(<<>>, ADMIN_EMAIL, ADMIN_PASSWORD),
                            USER_EMAIL, "testpassword123")
                   EXCEPT ![1].role = "ADMIN"]
    /\ pending = {}
    /\ categories = <<>>
    /\ next_category_id = 1
    /\ products = <<>>
    /\ next_product_id = 1
    /\ image_store = {}
    /\ next_image = 1
    /\ background_tasks = <<>>
    /\ outbox = {}
    /\ hash_seed = 0
    /\ last = Response("start", 0, "")

NextCatalog ==
    \/ \E credentials \in CatalogCredentials, name \in CategoryNames,
          description \in Descriptions :
           create_category(credentials, name, description)
    \/ \E credentials \in CatalogCredentials, category_id \in 1..MaxCategoryId,
          category_update \in CategoryUpdates :
           update_category(credentials, category_id, category_update)
    \/ \E credentials \in CatalogCredentials, category_id \in 1..MaxCategoryId,
          hard_delete \in BOOLEAN :
           delete_category(credentials, category_id, hard_delete)
    \/ \E credentials \in CatalogCredentials, title \in Titles,
          price \in Prices, short_description \in {None} \cup ShortDescriptions,
          category_id \in 1..MaxCategoryId :
           create_product(credentials, title, short_description, price,
                          category_id, <<>>)
    \/ \E credentials \in CatalogCredentials, product_id \in 1..MaxProductId,
          form \in ProductForms :
           update_product(credentials, product_id, form[1], None, form[2],
                          form[3], <<>>)
    \/ \E credentials \in CatalogCredentials, product_id \in 1..MaxProductId :
           delete_product(credentials, product_id)
    \/ \E credentials \in CatalogCredentials, product_id \in 1..MaxProductId :
           lock_product(credentials, product_id)
    \/ \E credentials \in CatalogCredentials, product_id \in 1..MaxProductId :
           unlock_product(credentials, product_id)
    \/ \E credentials \in CatalogCredentials,
          imagekit \in {"unavailable", "unconfigured", "ready"} :
           get_imagekit_auth(credentials, imagekit)
    \/ \E credentials \in CatalogCredentials : list_users(credentials, 0, 100)
    \/ \E credentials \in CatalogCredentials, user_id \in {1, MaxUsers} :
           get_user(credentials, user_id)

SpecCatalog == InitCatalog /\ [][NextCatalog]_vars

(***************************************************************************)
(* Email: registrations with their welcome email and the contact form with *)
(* its background task, on an empty database.                              *)
(***************************************************************************)
NextMail ==
    \/ \E email \in {USER_EMAIL, ADMIN_EMAIL}, password \in Passwords :
           register_user_check(email, password)
    \/ \E req \in pending, welcome \in SmtpOutcomes :
           register_user_create(req, welcome)
    \/ \E inquiry \in Inquiries : submit_inquiry(inquiry)
    \/ \E i \in 1..MaxInFlight, admin_smtp, customer_smtp \in {"sent", "failed"} :
           send_inquiry_notification(i, admin_smtp, customer_smtp)
    \/ \E seed \in HashSeeds : restart(seed)

SpecMail == InitAuth /\ [][NextMail]_vars

(***************************************************************************)
(* Product images: the database once the bootstrap script has created the  *)
(* administrator and the first of its categories, then the administrator's *)
(* product requests with uploaded files.                                   *)
(***************************************************************************)
Good(n) == [i \in 1..n |-> "good"]

\* the files of one multipart request
FileLists ==
    {<<>>, Good(1), Good(5), Good(6), Append(Good(5), "empty"),
     <<"good", "bad_extension">>}

MediaCredentials == {create_access_token(ADMIN_EMAIL)}

\* the store once the administrator and the first sample category exist
InitMedia ==
    /\ users = [create_user(<<>>, ADMIN_EMAIL, ADMIN_PASSWORD)
                   EXCEPT ![1].role = "ADMIN"]
    /\ pending = {}
    /\ categories = CategoryCRUD_create_category(<<>>, 1, "Photo Magnets",
                        "Custom photo magnets for personal use").categories
    /\ next_category_id = 2
    /\ products = <<>>
    /\ next_product_id = 1
    /\ image_store = {}
    /\ next_image = 1
    /\ background_tasks = <<>>
    /\ outbox = {}
    /\ hash_seed = 0
    /\ last = Response("start", 0, "")

NextMedia ==
    \/ \E credentials \in MediaCredentials, title \in Titles, price \in Prices,
          images \in FileLists :
           create_product(credentials, title, None, price, 1, images)
    \/ \E credentials \in MediaCredentials, product_id \in 1..MaxProductId,
          images \in FileLists :
           update_product(credentials, product_id, None, None, 0, 0, images)
    \/ \E credentials \in MediaCredentials, product_id \in 1..MaxProductId :
           delete_product(credentials, product_id)
    \/ \E credentials \in MediaCredentials, product_id \in 1..MaxProductId :
           lock_product(credentials, product_id)
    \/ \E credentials \in MediaCredentials, product_id \in 1..MaxProductId :
           unlock_product(credentials, product_id)

SpecMedia == InitMedia /\ [][NextMedia]_vars

(***************************************************************************)
(* Uploads: product requests with files against a category that is         *)
(* missing, active or deactivated.                                         *)
(***************************************************************************)
UploadLists == {<<>>, Good(1), Good(6), <<"good", "bad_extension">>}

NextUploads ==
    \/ \E credentials \in MediaCredentials, title \in Titles,
          short_description \in {None, "magnets"}, price \in Prices,
          category_id \in 1..MaxCategoryId, images \in UploadLists :
           create_product(credentials, title, short_description, price,
                          category_id, images)
    \/ \E credentials \in MediaCredentials, product_id \in 1..MaxProductId,
          images \in UploadLists :
           update_product(credentials, product_id, None, None, 0, 0, images)
    \/ \E credentials \in MediaCredentials :
           update_category(credentials, 1, [is_active |-> FALSE])
    \/ \E credentials \in MediaCredentials, product_id \in 1..MaxProductId :
           delete_product(credentials, product_id)
    \/ \E credentials \in MediaCredentials, product_id \in 1..MaxProductId :
           lock_product(credentials, product_id)
    \/ \E credentials \in MediaCredentials, product_id \in 1..MaxProductId :
           unlock_product(credentials, product_id)

SpecUploads == InitMedia /\ [][NextUploads]_vars

(***************************************************************************)
(* Forms: the administrator's PUT requests with every combination of       *)
(* fields, one request after the other.                                    *)
(***************************************************************************)
\* the fields of a PUT: each one alone, none, and all of them
PutForms ==
    {<<None, None, 0, 0, <<>>>>,
     <<"Beautiful Photo Magnet", None, 0, 0, <<>>>>,
     <<None, "small magnets for fridges", 0, 0, <<>>>>,
     <<None, None, 25, 0, <<>>>>,
     <<None, None, 0, 1, <<>>>>,
     <<None, None, 0, 0, Good(1)>>,
     <<"Beautiful Photo Magnet", "small magnets for fridges", 25, 1, Good(1)>>}

NextForms ==
    \/ \E credentials \in MediaCredentials, title \in Titles, price \in Prices,
          category_id \in 1..MaxCategoryId :
           create_product(credentials, title, None, price, category_id, <<>>)
    \/ \E credentials \in MediaCredentials, product_id \in 1..MaxProductId,
          form \in PutForms :
           update_product(credentials, product_id, form[1], form[2], form[3],
                          form[4], form[5])
    \/ \E credentials \in MediaCredentials, product_id \in 1..MaxProductId :
           lock_product(credentials, product_id)
    \/ \E credentials \in MediaCredentials, product_id \in 1..MaxProductId :
           unlock_product(credentials, product_id)

SpecForms == InitMedia /\ [][NextForms]_vars

(***************************************************************************)
(* Overlapping requests: the administrator's category deletions and        *)
(* product updates run as two database calls each, with other requests     *)
(* between them.  No product is deleted.                                   *)
(***************************************************************************)
NextRaces ==
    \/ \E credentials \in MediaCredentials, name \in CategoryNames,
          description \in Descriptions :
           create_category(credentials, name, description)
    \/ \E credentials \in MediaCredentials, category_id \in 1..MaxCategoryId,
          hard_delete \in BOOLEAN :
           delete_category_count(credentials, category_id, hard_delete)
    \/ \E req \in pending : delete_category_save(req)
    \/ \E credentials \in MediaCredentials, title \in Titles, price \in Prices,
          category_id \in 1..MaxCategoryId :
           create_product(credentials, title, None, price, category_id, <<>>)
    \/ \E credentials \in MediaCredentials, product_id \in 1..MaxProductId :
           update_product_load(credentials, product_id,
               [short_description |-> "small magnets for fridges"])
    \/ \E req \in pending, whole \in BOOLEAN : update_product_save(req, whole)
    \/ \E credentials \in MediaCredentials, product_id \in 1..MaxProductId :
           update_product(credentials, product_id, None,
                          "small magnets for fridges", 0, 0, <<>>)
    \/ \E credentials \in MediaCredentials, product_id \in 1..MaxProductId :
           lock_product(credentials, product_id)
    \/ \E credentials \in MediaCredentials, product_id \in 1..MaxProductId :
           unlock_product(credentials, product_id)

SpecRaces == InitMedia /\ [][NextRaces]_vars

(***************************************************************************)
(* Browsing: the administrator builds the catalog and anyone lists it.     *)
(***************************************************************************)
\* query strings of the listings: none, the limits at and beyond their
\* range, a skip below it, and a second page of one row
Pages ==
    {<<>>, [limit |-> 1000], [limit |-> 1001], [limit |-> 0], [skip |-> -1],
     [skip |-> 1, limit |-> 1]}

ProductQueries ==
    Pages \cup {[category_id |-> c] : c \in 1..MaxCategoryId}
          \cup {[skip |-> 1, limit |-> 1, category_id |-> c] :
                   c \in 1..MaxCategoryId}

CategoryQueries == Pages \cup {[active_only |-> TRUE]}

UserQueries == {<<>>, [limit |-> 1000], [limit |-> 1001]}

NextBrowse ==
    \/ \E credentials \in MediaCredentials, name \in CategoryNames,
          description \in Descriptions :
           create_category(credentials, name, description)
    \/ \E credentials \in MediaCredentials, category_id \in 1..MaxCategoryId,
          is_active \in BOOLEAN :
           update_category(credentials, category_id, [is_active |-> is_active])
    \/ \E credentials \in MediaCredentials, category_id \in 1..MaxCategoryId,
          hard_delete \in BOOLEAN :
           delete_category(credentials, category_id, hard_delete)
    \/ \E credentials \in MediaCredentials, title \in Titles, price \in Prices,
          category_id \in 1..MaxCategoryId :
           create_product(credentials, title, None, price, category_id, <<>>)
    \/ \E credentials \in MediaCredentials, product_id \in 1..MaxProductId :
           lock_product(credentials, product_id)
    \/ \E credentials \in MediaCredentials, product_id \in 1..MaxProductId :
           unlock_product(credentials, product_id)
    \/ \E query \in ProductQueries : list_unlocked_products(query)
    \/ \E query \in ProductQueries : list_products(query)
    \/ \E query \in CategoryQueries : list_categories(query)
    \/ \E query \in Pages : list_active_categories(query)
    \/ \E category_id \in 1..MaxCategoryId : get_category(category_id)
    \/ \E credentials \in MediaCredentials, query \in UserQueries :
           list_users_request(credentials, query)

SpecBrowse == InitMedia /\ [][NextBrowse]_vars

(***************************************************************************)
(* Properties of accounts and authentication.                              *)
(***************************************************************************)
Registered(us, email) == \E i \in 1..Len(us) : us[i].email = email

\* C3: GET /users/me answers 401 when the Authorization header is absent,
\* when the token does not verify and when the token's subject is no stored
\* user; with a valid token of user u it answers 200 with u's own profile.
C3_UsersMeTokenBoundary ==
    last.op = "get_current_user_info" =>
        LET c == last.credentials
            valid == c.sig = "good" /\ ~c.expired
        IN  /\ c.sig = "absent" => last.status = 401
            /\ (c.sig # "absent" /\ ~valid) => last.status = 401
            /\ (valid /\ ~Registered(users, c.sub)) => last.status = 401
            /\ (valid /\ Registered(users, c.sub)) =>
                   (last.status = 200 /\ last.email = c.sub)
            /\ last.status \in {200, 401}

\* C7: no two users share an email address, also when two registrations of
\* one email both pass the existence check before either inserts.
C7_EmailUnique ==
    \A i, j \in 1..Len(users) : users[i].email = users[j].email => i = j

\* two registrations of one email were past the check together; one inserted
\* and the other was refused by the unique index
C7_Witness ==
    /\ last.op = "register_user"
    /\ last.status = 500
    /\ Registered(users, last.email)

\* C8: a registration of an email that is registered when the request is
\* checked is rejected with 400 "Email already registered", creates no user
\* and issues no token; a registration that inserts the first user of an
\* email answers 201 with a token.
C8_DuplicateRegistration ==
    [][/\ (last'.op = "register_user" /\ last'.status = 400) =>
              /\ Registered(users, last'.email)
              /\ last'.detail = "Email already registered"
              /\ last'.token = NoToken
              /\ users' = users
       /\ (last'.op = "register_user_check" /\ pending' # pending) =>
              ~Registered(users, last'.email)
       /\ (last'.op = "register_user" /\ users' # users) =>
              /\ ~Registered(users, last'.email)
              /\ last'.status = 201
              /\ last'.token # NoToken
              /\ users' = Append(users, users'[Len(users')])
              /\ users'[Len(users')].email = last'.email
       /\ (last'.op = "register_user" /\ last'.status # 201) =>
              (users' = users /\ last'.token = NoToken)
      ]_vars

C8_Witness ==
    /\ last.op = "register_user"
    /\ last.status = 400
    /\ last.detail = "Email already registered"
    /\ Registered(users, last.email)

\* C9: right after a successful registration, a login with the same email
\* and password answers 200 with success and a token, and GET /users/me with
\* that token, or with the token the registration returned, answers with the
\* registered email.
C9_RegisterLoginRoundTrip ==
    (last.op = "register_user" /\ last.status = 201) =>
        LET r == login_response("login_user", users, last.email, last.password)
        IN  /\ r.status = 200
            /\ r.success
            /\ r.token # NoToken
            /\ \A t \in {r.token, last.token} :
                   \A g \in get_current_user(users, t) :
                       /\ me_response(users, g, t).status = 200
                       /\ me_response(users, g, t).email = last.email

C9_Witness ==
    /\ last.op = "register_user"
    /\ last.status = 201
    /\ last.token = create_access_token(last.email)
    /\ Len(users) >= 2

\* C10: POST /auth/login answers 401 "Incorrect email or password" with the
\* same response whether the email is unknown or the password is wrong, and
\* issues a token only to a stored user whose password verifies.
C10_LoginFailure ==
    last.op = "login_user" =>
        LET matches == {i \in 1..Len(users) :
                           /\ users[i].email = last.email
                           /\ users[i].hashed_password
                                  = get_password_hash(last.password)}
        IN  /\ last.status \in {200, 401}
            /\ last.status = 401 <=> matches = {}
            /\ last.status = 401 =>
                   last = [op |-> "login_user", status |-> 401,
                           detail |-> "Incorrect email or password",
                           success |-> FALSE, token |-> NoToken, user |-> 0,
                           email |-> last.email, password |-> last.password]
            /\ last.status = 200 =>
                   (last.user \in matches /\ last.token.sub = last.email)

\* a stored user's email with a wrong password
C10_Witness ==
    /\ last.op = "login_user"
    /\ last.status = 401
    /\ Registered(users, last.email)

(***************************************************************************)
(* Claims about the catalog.                                               *)
(***************************************************************************)
\* the caller passed the admin guard: the handler body ran
Handled(response, op) ==
    response.op = op /\ response.status \notin {401, 403}

Usable(cs, category_id) ==
    category_id \in DOMAIN cs /\ cs[category_id].is_active

Overwritten(record, fields) ==
    [f \in DOMAIN record |-> IF f \in DOMAIN fields THEN fields[f] ELSE record[f]]

\* C1: while a product is locked, a PUT that supplies fields and a DELETE on
\* it are answered 400 with a message citing the lock and the stored products
\* are left as they were; on an unlocked product the same PUT writes the
\* supplied fields and is answered 200 (its category being usable) and the
\* same DELETE removes the product and is answered 200.
C1_LockedProductImmutable ==
    [][ /\ ( /\ Handled(last', "update_product")
             /\ last'.id \in DOMAIN products
             /\ last'.update_data # <<>> ) =>
               IF products[last'.id].is_locked
               THEN /\ last'.status = 400
                    /\ last'.detail = "Cannot update locked product"
                    /\ products' = products
               ELSE ( \/ "category_id" \notin DOMAIN last'.update_data
                      \/ Usable(categories, last'.update_data.category_id) ) =>
                        /\ last'.status = 200
                        /\ products' = [products EXCEPT ![last'.id] =
                                           Overwritten(@, last'.update_data)]
        /\ ( /\ Handled(last', "delete_product")
             /\ last'.id \in DOMAIN products ) =>
               IF products[last'.id].is_locked
               THEN /\ last'.status = 400
                    /\ last'.detail = "Cannot delete locked product"
                    /\ products' = products
               ELSE /\ last'.status = 200
                    /\ last'.id \notin DOMAIN products'
                    /\ \A p \in DOMAIN products \ {last'.id} :
                           p \in DOMAIN products' /\ products'[p] = products[p]
      ]_vars

\* a locked product was asked to move to another, usable category
C1_Witness ==
    /\ last.op = "update_product"
    /\ last.status = 400
    /\ last.detail = "Cannot update locked product"
    /\ products[last.id].is_locked
    /\ Usable(categories, last.update_data.category_id)
    /\ last.update_data.category_id # products[last.id].category_id

AdminOps ==
    {"create_category", "update_category", "delete_category",
     "create_product", "update_product", "delete_product", "lock_product",
     "unlock_product", "list_users", "get_user_by_id", "get_imagekit_auth"}

persisted == <<users, categories, next_category_id, products, next_product_id,
               image_store, next_image>>

IsAdmin(us, caller) ==
    caller \in 1..Len(us) /\ us[caller].role \in {"ADMIN", "Admin", "admin"}

\* C2: an administrator-only operation is answered with success, or changes
\* anything persisted, only when its caller is an authenticated user whose
\* stored role is admin in any letter case; for any other authenticated
\* caller the answer is 403 and nothing persisted changes.
C2_AdminOnly ==
    [][ last'.op \in AdminOps =>
          /\ ( \/ last'.status \in {200, 201}
               \/ persisted' # persisted ) => IsAdmin(users, last'.caller)
          /\ ( last'.caller # 0 /\ ~IsAdmin(users, last'.caller) ) =>
               /\ last'.status = 403
               /\ persisted' = persisted
      ]_vars

\* the registered non-admin user asked to create the first category
C2_Witness ==
    /\ last.op = "create_category"
    /\ last.status = 403
    /\ last.caller # 0
    /\ users[last.caller].role = "USER"
    /\ last.credentials = create_access_token(users[last.caller].email)
    /\ categories = <<>>

Referencing(ps, category_id) ==
    {p \in DOMAIN ps : ps[p].category_id = category_id}

\* C4: DELETE on a stored category that products reference is answered 400
\* with the number of those products, in soft and in hard mode, and the
\* categories are left as they were; on a stored category no product
\* references it is answered 200, the soft mode clearing the active flag and
\* the hard mode removing the category.
C4_CategoryDeletionGuard ==
    [][ ( /\ Handled(last', "delete_category")
          /\ last'.id \in DOMAIN categories ) =>
            IF Referencing(products, last'.id) # {}
            THEN /\ last'.status = 400
                 /\ last'.detail
                        = "Cannot delete category. It has N associated products."
                 /\ last'.count = Cardinality(Referencing(products, last'.id))
                 /\ categories' = categories
            ELSE /\ last'.status = 200
                 /\ IF last'.hard_delete
                    THEN /\ last'.id \notin DOMAIN categories'
                         /\ \A c \in DOMAIN categories \ {last'.id} :
                                c \in DOMAIN categories'
                                    /\ categories'[c] = categories[c]
                    ELSE categories' =
                             [categories EXCEPT ![last'.id].is_active = FALSE]
      ]_vars

\* a hard delete of a category that two products reference
C4_Witness ==
    /\ last.op = "delete_category"
    /\ last.status = 400
    /\ last.hard_delete
    /\ last.count = 2
    /\ Cardinality(Referencing(products, last.id)) = 2

NameTaken(cs, name, except) ==
    \E c \in DOMAIN cs : c # except /\ cs[c].name = name

\* C5: no two stored categories ever share a name; POST /categories/ with a
\* name in use, and PUT renaming a category to the name of a different
\* category, are answered 400 and leave the categories as they were; a PUT
\* whose name is the category's own is answered 200.
C5_CategoryNameUnique ==
    [][ /\ \A c, d \in DOMAIN categories' :
               c # d => categories'[c].name # categories'[d].name
        /\ ( /\ Handled(last', "create_category")
             /\ NameTaken(categories, last'.name, 0) ) =>
               /\ last'.status = 400
               /\ <<categories', next_category_id'>>
                      = <<categories, next_category_id>>
        /\ ( /\ Handled(last', "update_category")
             /\ last'.id \in DOMAIN categories
             /\ "name" \in DOMAIN last'.category_update ) =>
               IF NameTaken(categories, last'.category_update.name, last'.id)
               THEN /\ last'.status = 400
                    /\ categories' = categories
               ELSE /\ last'.status = 200
                    /\ categories'[last'.id].name = last'.category_update.name
      ]_vars

\* a category was asked to take the name of another one
C5_Witness ==
    /\ last.op = "update_category"
    /\ last.status = 400
    /\ last.id \in DOMAIN categories
    /\ NameTaken(categories, last.category_update.name, last.id)
    /\ categories[last.id].name # last.category_update.name

C11_MissingEntityNotFound ==
    [][ /\ ( /\ last'.op \in {"update_category", "delete_category"}
             /\ last'.status \notin {401, 403}
             /\ last'.id \notin DOMAIN categories ) =>
               (last'.status = 404 /\ persisted' = persisted)
        /\ ( /\ last'.op \in {"update_product", "delete_product",
                              "lock_product", "unlock_product"}
             /\ last'.status \notin {401, 403}
             /\ last'.id \notin DOMAIN products ) =>
               (last'.status = 404 /\ persisted' = persisted)
      ]_vars

\* C12: a POST /products/ or a PUT on a stored product with more than 5
\* non-empty image files is answered 400 'Maximum 5 images allowed per
\* product', stores and deletes no image and changes no product; with 5 or
\* fewer the request is not refused for the number of its images.
C12_ImageLimit ==
    [][ ( /\ \/ Handled(last', "create_product")
             \/ Handled(last', "update_product") /\ last'.id \in DOMAIN products
        ) =>
          IF last'.files > 5
          THEN /\ last'.status = 400
               /\ last'.detail = "Maximum 5 images allowed per product"
               /\ <<image_store', next_image'>> = <<image_store, next_image>>
               /\ products' = products
          ELSE last'.detail \notin
                   {"Maximum 5 images allowed per product",
                    "Failed to update product: 400: Maximum 5 images allowed per product"}
      ]_vars

(***************************************************************************)
(* Claims about the listings.                                              *)
(***************************************************************************)
ProductListings == {"list_products", "list_unlocked_products"}

\* C13: GET /products and GET /products/unlocked with a category filter that
\* names no stored category, or a stored inactive one, are answered 400.
C13_ListingCategoryFilter ==
    ( /\ last.op \in ProductListings
      /\ pagination_valid(last.query)
      /\ "category_id" \in DOMAIN last.query
      /\ ~Usable(categories, last.query.category_id) ) =>
        last.status = 400

Matching(ps, query) ==
    {p \in DOMAIN ps :
        "category_id" \in DOMAIN query => ps[p].category_id = query.category_id}

Listed(response) == {response.data[i] : i \in 1..Len(response.data)}

\* C14: GET /products/unlocked lists only stored products whose is_locked is
\* false and that are in the filter's category, its total is the number of
\* all unlocked products matching the filter whatever skip and limit are,
\* and with the default page it lists every one of them; GET /products lists
\* locked and unlocked products alike and counts them all.
C14_UnlockedListing ==
    /\ (last.op = "list_unlocked_products" /\ last.status = 200) =>
          LET expected == {p \in Matching(products, last.query) :
                              ~products[p].is_locked}
          IN  /\ Listed(last) \subseteq expected
              /\ last.total = Cardinality(expected)
              /\ DOMAIN last.query \subseteq {"category_id"} =>
                     Listed(last) = expected
    /\ (last.op = "list_products" /\ last.status = 200) =>
          /\ Listed(last) \subseteq Matching(products, last.query)
          /\ last.total = Cardinality(Matching(products, last.query))
          /\ DOMAIN last.query \subseteq {"category_id"} =>
                 Listed(last) = Matching(products, last.query)

\* a second page of one row, past the only unlocked product, while a locked
\* product is stored
C14_Witness ==
    /\ last.op = "list_unlocked_products"
    /\ last.status = 200
    /\ last.query = [skip |-> 1, limit |-> 1]
    /\ last.total = 1
    /\ last.data = <<>>
    /\ \E p \in DOMAIN products : products[p].is_locked

(***************************************************************************)
(* Claims about product locks and images.                                  *)
(***************************************************************************)
\* C15: PATCH lock and PATCH unlock by an administrator on a stored product
\* are answered 200 whether the product is locked or not, leave is_locked
\* true and false respectively, change no other field of the product and
\* nothing else that is stored; on a product already in the requested state
\* they change nothing.
C15_LockUnlock ==
    [][ \A op \in {"lock_product", "unlock_product"} :
          ( Handled(last', op) /\ last'.id \in DOMAIN products ) =>
            /\ last'.status = 200
            /\ DOMAIN products' = DOMAIN products
            /\ products'[last'.id].is_locked = (op = "lock_product")
            /\ \A f \in DOMAIN products[last'.id] \ {"is_locked"} :
                   products'[last'.id][f] = products[last'.id][f]
            /\ \A p \in DOMAIN products \ {last'.id} : products'[p] = products[p]
            /\ <<users, categories, next_category_id, next_product_id,
                 image_store, next_image>>'
                 = <<users, categories, next_category_id, next_product_id,
                     image_store, next_image>>
            /\ products[last'.id].is_locked = (op = "lock_product") =>
                   products' = products
      ]_vars

\* a product holding images was locked
C15_Witness ==
    /\ last.op = "lock_product"
    /\ last.status = 200
    /\ products[last.id].is_locked
    /\ products[last.id].images # <<>>

(***************************************************************************)
(* Claims about category deletion.                                         *)
(***************************************************************************)
\* what the read endpoints of the categories router answer in a state
CategoryReads ==
    /\ last.op = "get_category" =>
          IF last.id \in DOMAIN categories
          THEN last.status = 200 /\ last.data = categories[last.id]
          ELSE last.status = 404
    /\ ( /\ last.op \in {"list_categories", "list_active_categories"}
         /\ last.status = 200
         /\ ( \/ last.op = "list_active_categories"
              \/ last.query = [active_only |-> TRUE] ) ) =>
          /\ \A c \in Listed(last) :
                 c \in DOMAIN categories /\ categories[c].is_active
          /\ DOMAIN last.query \subseteq {"active_only"} =>
                 \A c \in DOMAIN categories :
                     categories[c].is_active => c \in Listed(last)

\* C16: on a stored category that no product references, a soft delete keeps
\* the category stored with is_active false and its name and description as
\* they were, GET /categories/{id} still answers it and the active-only
\* listings leave it out; a hard delete removes it, so that GET by its id
\* answers 404 and a category of its name can be created again.
C16_SoftAndHardDelete ==
    /\ []CategoryReads
    /\ [][ ( /\ Handled(last', "delete_category")
             /\ last'.id \in DOMAIN categories
             /\ Referencing(products, last'.id) = {} ) =>
               IF last'.hard_delete
               THEN /\ last'.id \notin DOMAIN categories'
                    /\ get_category_by_id(categories', last'.id) = 0
                    /\ ~NameTaken(categories', categories[last'.id].name, 0)
                    /\ CategoryCRUD_create_category(categories', next_category_id',
                           categories[last'.id].name, None).raised = ""
               ELSE /\ last'.id \in DOMAIN categories'
                    /\ get_category_by_id(categories', last'.id) = last'.id
                    /\ ~categories'[last'.id].is_active
                    /\ categories'[last'.id].name = categories[last'.id].name
                    /\ categories'[last'.id].description
                           = categories[last'.id].description
                    /\ \A skip \in 0..1, limit \in {1, 100} :
                           \A i \in DOMAIN CategoryCRUD_get_categories(
                                               categories', skip, limit, TRUE) :
                               CategoryCRUD_get_categories(
                                   categories', skip, limit, TRUE)[i] # last'.id
         ]_vars

\* a stored category was soft-deleted while another one stays active
C16_Witness ==
    /\ last.op = "delete_category"
    /\ last.status = 200
    /\ ~last.hard_delete
    /\ last.id \in DOMAIN categories
    /\ ~categories[last.id].is_active
    /\ \E c \in DOMAIN categories : categories[c].is_active

Range(seq) == {seq[i] : i \in 1..Len(seq)}

\* C17: a DELETE that removes an unlocked product asks the image service to
\* remove every image the product references, and asks it before it removes
\* the product record; a DELETE on a locked product, or on an identifier
\* under which nothing is stored, asks for no image removal and no image
\* leaves the store.
C17_ImagesRemovedBeforeRecord ==
    [][ Handled(last', "delete_product") =>
          LET calls == last'.calls
              removals == {i \in DOMAIN calls :
                              calls[i].call = "delete_product_images"}
              deletes == {i \in DOMAIN calls : calls[i].call = "delete"}
          IN  IF last'.id \in DOMAIN products /\ ~products[last'.id].is_locked
              THEN /\ deletes # {}
                   /\ last'.id \notin DOMAIN products'
                   /\ \A image \in Range(products[last'.id].images) :
                          /\ \E i \in removals :
                                 /\ image \in Range(calls[i].image_paths)
                                 /\ \A j \in deletes : i < j
                          /\ image \notin image_store'
              ELSE /\ removals = {}
                   /\ deletes = {}
                   /\ image_store' = image_store
                   /\ products' = products
      ]_vars

\* a product of five images was deleted
C17_Witness ==
    /\ last.op = "delete_product"
    /\ last.status = 200
    /\ Len(last.calls) = 2
    /\ Len(last.calls[1].image_paths) = 5
    /\ Range(last.calls[1].image_paths) \cap image_store = {}

(***************************************************************************)
(* Claims about email.                                                     *)
(***************************************************************************)
InquirySubjects == {"New Inquiry", "Thank you for contacting PixelForge Studio"}

\* C18: POST /inquiry/contact with a valid payload is answered 201 with the
\* acknowledgement and a reference code, queues one background task and
\* sends nothing itself; the answer is fixed by the request before the task
\* runs.  An inquiry email enters the outbox only in a step of the task; the
\* task leaves the queue whatever became of its two emails, so none is tried
\* again.  (A step that changes hash_seed is a restart of the server, not a
\* request.)
C18_InquiryAcknowledged ==
    [][ /\ ( last'.op = "submit_inquiry"
             /\ hash_seed' = hash_seed
             /\ strip(last'.inquiry.message) # ""
             /\ Len(strip(last'.inquiry.message)) >= 10 ) =>
               /\ last' = [op |-> "submit_inquiry", status |-> 201,
                           detail |-> "Thank you for your inquiry! We have received your message and will get back to you soon.",
                           inquiry |-> last'.inquiry,
                           reference_id |-> last'.reference_id,
                           state |-> "received",
                           process |-> last'.process]
               /\ last'.reference_id \in 0..9999
               /\ outbox' = outbox
               /\ Len(background_tasks') = Len(background_tasks) + 1
               /\ background_tasks'[Len(background_tasks')].inquiry_data.email
                      = last'.inquiry.email
        /\ ( last'.op = "send_inquiry_notification"
             /\ hash_seed' = hash_seed ) =>
               /\ Len(background_tasks') = Len(background_tasks) - 1
               /\ outbox \subseteq outbox'
               /\ \A m \in outbox' \ outbox :
                      /\ m.subject \in InquirySubjects
                      /\ m.to \in {ADMIN_EMAIL, last'.inquiry_data.email}
        /\ (\E m \in outbox' \ outbox : m.subject \in InquirySubjects) =>
               /\ last'.op = "send_inquiry_notification"
               /\ Len(background_tasks) > 0
      ]_vars

\* the task of an acknowledged inquiry ran, both emails failed, and nothing
\* is queued to try them again
C18_Witness ==
    /\ last.op = "send_inquiry_notification"
    /\ ~last.admin_success
    /\ ~last.customer_success
    /\ background_tasks = <<>>
    /\ \A m \in outbox : m.subject \notin InquirySubjects

\* C19: whenever POST /auth/register stores the user it is answered 201 with
\* a token for that user and the user is stored, whether the welcome email
\* was sent, failed, or raised an error.
C19_WelcomeEmailFailureTolerated ==
    [][ ( last'.op = "register_user" /\ users' # users ) =>
          /\ last'.status = 201
          /\ last'.welcome \in SmtpOutcomes
          /\ last'.token # NoToken
          /\ last'.token.sub = last'.email
          /\ Registered(users', last'.email)
          /\ (outbox' # outbox) => last'.welcome = "sent"
      ]_vars

\* a registration whose welcome email raised an error
C19_Witness ==
    /\ last.op = "register_user"
    /\ last.status = 201
    /\ last.welcome = "raised"
    /\ Registered(users, last.email)
    /\ \A m \in outbox : m.to # last.email

(***************************************************************************)
(* Claims about pagination.                                                *)
(***************************************************************************)
PublicListings ==
    {"list_products", "list_unlocked_products", "list_categories",
     "list_active_categories"}

InRange(skip, limit) == skip >= 0 /\ limit >= 1 /\ limit <= 1000

\* C20: on every listing endpoint (users, categories, active categories,
\* products, unlocked products) a skip below 0 or a limit outside 1..1000 is
\* answered 422 with nothing read from the repository, limit=1000 is
\* accepted, and omitted parameters stand for skip=0 and limit=100.
C20_PaginationValidated ==
    /\ last.op \in PublicListings =>
           LET skip  == IF "skip" \in DOMAIN last.query
                        THEN last.query.skip ELSE 0
               limit == IF "limit" \in DOMAIN last.query
                        THEN last.query.limit ELSE 100
           IN  /\ ~InRange(skip, limit) =>
                      last.status = 422 /\ last.data = <<>>
               /\ InRange(skip, limit) => last.status # 422
    /\ ( last.op = "list_users" /\ "limit" \in DOMAIN last ) =>
           /\ ~InRange(last.skip, last.limit) => last.status = 422
           /\ InRange(last.skip, last.limit) => last.status = 200

(***************************************************************************)
(* Claims about the inquiry reference code.                                *)
(***************************************************************************)
\* a step that computes a reference code: the answer to an accepted inquiry
\* and the confirmation email of its background task
Referenced(response) ==
    \/ response.op = "submit_inquiry" /\ response.status = 201
    \/ response.op = "send_inquiry_notification"

Submitter(response) ==
    IF response.op = "submit_inquiry" THEN response.inquiry.email
    ELSE response.inquiry_data.email

\* C21 (as stated): any two inquiries submitted with the same email on the
\* same date receive the same 4-digit suffix, whenever they are submitted
\* and whatever their other fields are.
C21_ReferenceCodeByEmailAlone ==
    [][ ( /\ Referenced(last)
          /\ Referenced(last')
          /\ Submitter(last') = Submitter(last) ) =>
            last'.reference_id = last.reference_id
      ]_vars

\* C21 (corrected): two inquiries with the same email handled by the same
\* server process receive the same 4-digit suffix, in the answer and in the
\* confirmation email, whatever their other fields are; the suffix lies in
\* 0..9999.
C21_ReferenceCodeWithinProcess ==
    [][ /\ ( /\ Referenced(last)
             /\ Referenced(last')
             /\ Submitter(last') = Submitter(last)
             /\ last'.process = last.process ) =>
               last'.reference_id = last.reference_id
        /\ Referenced(last') => last'.reference_id \in 0..9999
      ]_vars

\* two accepted inquiries of one submitter with different messages wait in
\* the queue of a process started after the first one
C21_Witness ==
    /\ last.op = "submit_inquiry"
    /\ last.status = 201
    /\ hash_seed = 1
    /\ Len(background_tasks) = 2
    /\ background_tasks[1].inquiry_data.email = background_tasks[2].inquiry_data.email
    /\ background_tasks[1].inquiry_data.message # background_tasks[2].inquiry_data.message

(***************************************************************************)
(* Claims about the bootstrap script.                                      *)
(***************************************************************************)
WithEmail(us, email) == {i \in 1..Len(us) : us[i].email = email}

C23_CategoryCheckedBeforeUpload ==
    [][ last'.op = "create_product" =>
          /\ image_store' # image_store =>
                 /\ Usable(categories, last'.category_id)
                 /\ last'.files <= 5
                 /\ last'.detail # "Short description must be exactly 4-6 words"
          /\ ( \/ ~Usable(categories, last'.category_id)
               \/ last'.detail = "Short description must be exactly 4-6 words" ) =>
                 /\ last'.status = 400
                 /\ image_store' = image_store
                 /\ next_image' = next_image
                 /\ products' = products
      ]_vars

\* a create request with files was rejected for its deactivated category
\* while the backend holds the images of an earlier product
C23_Witness ==
    /\ last.op = "create_product"
    /\ last.status = 400
    /\ last.detail = "Category is currently inactive"
    /\ last.files > 0
    /\ image_store # {}
    /\ \A p \in DOMAIN products :
           \A i \in 1..Len(products[p].images) : products[p].images[i] \in image_store

(***************************************************************************)
(* Claims about overlapping requests.                                      *)
(***************************************************************************)
Dangling(cs, ps) == {p \in DOMAIN ps : ~Usable(cs, ps[p].category_id)}

\* C24: a category deletion that has counted no products goes through with
\* its deactivation or removal whatever was created since the count, so a
\* product created in between is left referencing a category that is
\* inactive or gone; among overlapping deletions and creations a product
\* comes to reference such a category in no other way.
C24_DeleteCreateRace ==
    [][ /\ ( last'.op = "delete_category" /\ pending \ pending' # {} ) =>
               /\ last'.status = 200
               /\ ~Usable(categories', last'.id)
               /\ products' = products
        /\ ( Dangling(categories', products') \ Dangling(categories, products) # {} ) =>
               /\ last'.op = "delete_category"
               /\ \E req \in pending \ pending' :
                      /\ req.id = last'.id
                      /\ Referencing(products, req.id) # {}
      ]_vars

\* a deletion answered 200 left a stored product with its category removed
C24_Witness ==
    /\ last.op = "delete_category"
    /\ last.status = 200
    /\ last.hard_delete
    /\ last.id \notin DOMAIN categories
    /\ \E p \in DOMAIN products : products[p].category_id = last.id

\* the stored fields of a product other than its lock
Content(product) == [f \in DOMAIN product \ {"is_locked"} |-> product[f]]

StaleSave(p) ==
    \E req \in pending \ pending' :
        /\ req.op = "update_product"
        /\ req.id = p
        /\ ~req.db_product.is_locked

C28_LockFlagFrame ==
    [][ /\ \A p \in DOMAIN products \cap DOMAIN products' :
             products'[p].is_locked # products[p].is_locked =>
                 /\ last'.op \in {"lock_product", "unlock_product"}
                 /\ last'.status = 200
                 /\ last'.id = p
                 /\ products'[p].is_locked = (last'.op = "lock_product")
        /\ \A p \in DOMAIN products' \ DOMAIN products :
             /\ last'.op = "create_product"
             /\ ~products'[p].is_locked
        /\ last'.op = "update_product" =>
             \A p \in DOMAIN products :
                 /\ p \in DOMAIN products'
                 /\ products'[p].is_locked = products[p].is_locked
      ]_vars

\* a PUT carrying title, short description, price, category and a file was
\* answered 200 and the product is still unlocked, next to a locked one
C28_Witness ==
    /\ last.op = "update_product"
    /\ last.status = 200
    /\ DOMAIN last.update_data =
           {"title", "short_description", "price", "category_id", "images"}
    /\ ~products[last.id].is_locked
    /\ \E p \in DOMAIN products : products[p].is_locked

(***************************************************************************)
(* Claims about the image backend.                                         *)
(***************************************************************************)
\* C26: a PUT /products/{id} that carries replacement images and fails
\* because the product is locked deletes nothing from the image backend:
\* every image the locked product references is still stored afterwards.
C26_LockedUpdateKeepsImages ==
    [][ ( /\ last'.op = "update_product"
          /\ last'.files > 0
          /\ last'.status = 400
          /\ last'.detail = "Cannot update locked product" ) =>
            /\ products' = products
            /\ \A f \in Range(products[last'.id].images) : f \in image_store'
      ]_vars

\* C30: every image the storage backend holds is referenced by a stored
\* product; the images a failed create or update request had uploaded do
\* not stay in the backend.
C30_NoOrphanImages ==
    \A f \in image_store :
        \E p \in DOMAIN products : f \in Range(products[p].images)

(***************************************************************************)
(* Claims about the catalog, one request after the other.                  *)
(***************************************************************************)
\* C27: under any sequence of category and product requests that do not
\* overlap, every stored product references a stored category: a create or
\* a re-categorization never targets a missing category, and a hard delete
\* never removes a category that a product references.
C27_ProductCategoryExists ==
    /\ [](\A p \in DOMAIN products : products[p].category_id \in DOMAIN categories)
    /\ [][ /\ \A p \in DOMAIN products' :
                (p \notin DOMAIN products
                    \/ products'[p].category_id # products[p].category_id) =>
                    products'[p].category_id \in DOMAIN categories
           /\ \A c \in DOMAIN categories \ DOMAIN categories' :
                /\ Referencing(products, c) = {}
                /\ last'.op = "delete_category"
                /\ last'.hard_delete
         ]_vars

\* a hard delete removed a category no product referenced while the stored
\* products reference the category that stays
C27_Witness ==
    /\ last.op = "delete_category"
    /\ last.status = 200
    /\ last.hard_delete
    /\ last.id \notin DOMAIN categories
    /\ products # <<>>
    /\ \A p \in DOMAIN products : products[p].category_id \in DOMAIN categories

(***************************************************************************)
(* Claims about the users table.                                           *)
(***************************************************************************)
\* C29: no request of the HTTP surface deletes a user or changes a stored
\* user's role, email or password hash; the one change a request makes to
\* the users is one more user with role USER, on a registration answered
\* 201.  (The bootstrap script is no request: it may add the administrator.)
C29_UsersOnlyGrowByRegistration ==
    [][ /\ Len(users') >= Len(users)
        /\ \A i \in 1..Len(users) : users'[i] = users[i]
        /\ ( users' # users /\ last'.op # "create_admin_user" ) =>
               /\ last'.op = "register_user"
               /\ last'.status = 201
               /\ Len(users') = Len(users) + 1
               /\ users'[Len(users')].role = "USER"
               /\ users'[Len(users')].email = last'.email
      ]_vars

\* a registration answered 201 added a USER next to the administrator, whose
\* record is what the bootstrap stored
C29_Witness ==
    /\ last.op = "register_user"
    /\ last.status = 201
    /\ Len(users) >= 2
    /\ users[Len(users)].role = "USER"
    /\ users[1] = [create_user(<<>>, ADMIN_EMAIL, ADMIN_PASSWORD)
                      EXCEPT ![1].role = "ADMIN"][1]

====
